---------------------------- MODULE Spec2Model ----------------------------
(***************************************************************************)
(* A model of heed (semtexzv/heed): the process-wide registry of opened   *)
(* environments with its two-phase close (heed/src/env.rs), the per       *)
(* environment record of database typings (Env::raw_init_database) and    *)
(* the table operations of PolyDatabase (heed/src/db/polymorph.rs) and    *)
(* the Store and Table traits with their implementations                  *)
(* (heed/src/store).                                                       *)
(*                                                                         *)
(* The specifications share the variables:                                 *)
(*   Spec / LiveSpec : threads that open, clone, drop and close            *)
(*                     environments through the OPENED_ENV registry;       *)
(*   DbSpec          : threads that open and create databases of one       *)
(*                     environment (the dbi_open_mutex type record);       *)
(*   TableSpec       : one client using database handles and               *)
(*                     transactions of several environments;               *)
(*   CursorSpec      : one client deleting, counting, looking up and       *)
(*                     iterating in a write transaction;                   *)
(*   SeqSpec         : one client reading and increasing the sequence of   *)
(*                     a database, beside a reader of another thread;      *)
(*   StoreSpec       : a writer in with_wtx and a reader in a read         *)
(*                     transaction of one Store;                           *)
(*   LsmSpec         : one client writing, clearing and iterating the      *)
(*                     tables of a store of the LSM engine;                *)
(*   TraitSpec       : one client writing to the tables of a store and     *)
(*                     asking for their len;                               *)
(*   CodecSpec       : one client using a table of the LSM engine with     *)
(*                     several codecs;                                     *)
(*   MutIterSpec     : one client running the mutable iterators of a       *)
(*                     database in a write transaction;                    *)
(*   PagedSpec       : runs of paged;                                      *)
(*   CopySpec        : one client copying a table with bytecopy.           *)
(***************************************************************************)
EXTENDS Integers, Sequences, FiniteSets, TLC

(***************************************************************************)
(* Bounds of the model.                                                    *)
(***************************************************************************)
\* native environments created during one behaviour (environment identities)
MaxEnvs == 2
\* Env clones one thread's user code owns at a time
MaxHandles == 1

Threads == {"t1", "t2"}
\* canonical paths, the keys of OPENED_ENV
Paths == {"p", "q"}
\* paths as given by the caller: "lnk" is a symbolic link to "p", "gone"
\* does not exist
RawPaths == {"p", "lnk", "q", "gone"}
\* two different EnvOpenOptions values (derived PartialEq)
Options == {"c1", "c2"}
EnvIds == 1 .. MaxEnvs

VARIABLES
    \* ---- the environment registry (Spec, LiveSpec) ----
    registry,     \* OPENED_ENV: canonical path -> EnvEntry (or vacant)
    lockOwner,    \* the thread holding the OPENED_ENV write lock ({} if free)
    poisoned,     \* the RwLock was poisoned by a panic under the lock
    strong,       \* Arc<EnvInner> strong count of each environment
    native,       \* state of the native MDB_env of each environment
    envPath,      \* EnvInner.path of each environment
    signalCount,  \* how often SignalEvent::signal() was called per event
    closing,      \* environments prepare_for_closing was called on (ghost)
    nextEnv,      \* next unused environment identity
    pc,           \* position of each thread
    handles,      \* Env clones owned by each thread's user code
    events,       \* the EnvClosingEvents handed out to user code
    local,        \* locals of the call a thread is executing
    result,       \* what the last completed call returned
    \* ---- the databases of one environment (DbSpec) ----
    dbiMutex,     \* the thread holding EnvInner.dbi_open_mutex ({} if free)
    dbiOf,        \* the engine's catalogue: name -> dbi (0: no such database)
    typeRec,      \* the HashMap under dbi_open_mutex: dbi -> recorded types
    firstTyped,   \* types of the first typed open that reached a dbi (ghost)
    dbPc,         \* position of each thread in raw_init_database
    dbLocal,      \* arguments of the call a thread is executing
    dbResult,     \* what the last completed open/create returned
    \* ---- the tables of several environments (TableSpec) ----
    envAddr,      \* address of the native MDB_env of each open environment
    store,        \* committed content of the unnamed database of each environment
    txn,          \* the client's transaction
    db,           \* the client's PolyDatabase handle
    tblResult,    \* what the last table operation returned
    seq,          \* the sequence of the unnamed database: of each
                  \* environment (store) and as the transaction sees it (work)
    \* ---- a Store and its tables (StoreSpec, LsmSpec) ----
    backend,      \* the implementation of Store the client opened
    tables,       \* committed content of each table of the store
    wtx,          \* the write transaction of the store
    rtx,          \* the read transaction of the store
    stResult,     \* what the last call on the store returned
    page          \* the run of paged: the loop's position, old and cur

envVars == <<registry, lockOwner, poisoned, strong, native, envPath,
             signalCount, closing, nextEnv, pc, handles, events, local, result>>

dbVars == <<dbiMutex, dbiOf, typeRec, firstTyped, dbPc, dbLocal, dbResult>>

tblVars == <<envAddr, store, txn, db, tblResult, seq>>

storeVars == <<backend, tables, wtx, rtx, stResult, page>>

vars == <<envVars, dbVars, tblVars, storeVars>>

--------------------------------------------------------------------------
(***************************************************************************)
(* The environment registry: heed/src/env.rs                               *)
(***************************************************************************)

\* canonicalize_path: resolves links; fails for a path that does not exist
canonicalize_path(raw) ==
    CASE raw = "lnk"  -> {"p"}
      [] raw = "gone" -> {}
      [] OTHER        -> {raw}

Canonical(raw) == CHOOSE p \in canonicalize_path(raw) : TRUE

\* a vacant slot of the HashMap
Vacant == [present |-> FALSE, env |-> {}, signal_event |-> {}, options |-> "c1"]

\* EnvEntry { env: Option<Env>, signal_event, options }; the event is
\* identified with the environment it was created for
EnvEntry(env, ev, opts) ==
    [present |-> TRUE, env |-> env, signal_event |-> {ev}, options |-> opts]

NoLocal == [path |-> "p", options |-> "c1", env |-> {}, ev |-> {}, pending |-> 0]
\* found is a ghost field: the entry an open found under the lock
\* ("vacant", "open" or "closing")
NoResult == [op |-> "none", ret |-> "none", env |-> {}, found |-> "-"]
Ret(op, ret, env) == [op |-> op, ret |-> ret, env |-> env, found |-> "-"]
OpenRet(ret, env, found) == [op |-> "open", ret |-> ret, env |-> env, found |-> found]

EntryState(entry) ==
    IF ~entry.present THEN "vacant" ELSE IF entry.env = {} THEN "closing" ELSE "open"

\* a native MDB_env that was created and not yet closed
Live(e) == native[e] \in {"opening", "open", "closing"}

InitEnv ==
    /\ registry = [p \in Paths |-> Vacant]
    /\ lockOwner = {}
    /\ poisoned = FALSE
    /\ strong = [e \in EnvIds |-> 0]
    /\ native = [e \in EnvIds |-> "none"]
    /\ envPath = [e \in EnvIds |-> "p"]
    /\ signalCount = [e \in EnvIds |-> 0]
    /\ closing = {}
    /\ nextEnv = 1
    /\ pc = [t \in Threads |-> "idle"]
    /\ handles = [t \in Threads |-> [e \in EnvIds |-> 0]]
    /\ events = {}
    /\ local = [t \in Threads |-> NoLocal]
    /\ result = NoResult

\* OPENED_ENV.write().unwrap() returns: the lock is free and not poisoned
\* (a thread blocks while another holds it; unwrap panics on a poisoned lock)
CanLock == lockOwner = {} /\ ~poisoned

RECURSIVE SumOver(_, _)
SumOver(f, S) ==
    IF S = {} THEN 0
    ELSE LET x == CHOOSE y \in S : TRUE IN f[x] + SumOver(f, S \ {x})

\* the Env clones thread t owns (the model lets a thread own MaxHandles)
HandleCount(t) == SumOver(handles[t], EnvIds)

\* EnvOpenOptions::open, line 198: canonicalize_path(..)? returns the error
OpenBadPath(t, raw, opts) ==
    /\ pc[t] = "idle"
    /\ canonicalize_path(raw) = {}
    /\ result' = Ret("open", "Io", {})
    /\ UNCHANGED <<dbVars, tblVars, storeVars>>
    /\ UNCHANGED <<registry, lockOwner, poisoned, strong, native, envPath,
                   signalCount, closing, nextEnv, pc, handles, events, local>>

\* OpenOccupied with the comparison of the options inverted
OpenOccupied_OptionsInverted(t, raw, opts) ==
    /\ pc[t] = "idle"
    /\ HandleCount(t) < MaxHandles
    /\ canonicalize_path(raw) # {}
    /\ CanLock
    /\ registry[Canonical(raw)].present
    /\ LET entry == registry[Canonical(raw)] IN
       IF entry.options = opts
       THEN /\ result' = OpenRet("BadOpenOptions", {}, EntryState(entry))
            /\ UNCHANGED <<strong, handles>>
       ELSE IF entry.env = {}
       THEN /\ result' = OpenRet("DatabaseClosing", {}, "closing")
            /\ UNCHANGED <<strong, handles>>
       ELSE LET e == CHOOSE x \in entry.env : TRUE IN
            /\ strong' = [strong EXCEPT ![e] = @ + 1]
            /\ handles' = [handles EXCEPT ![t][e] = @ + 1]
            /\ result' = OpenRet("Ok", {e}, "open")
    /\ UNCHANGED <<dbVars, tblVars, storeVars>>
    /\ UNCHANGED <<registry, lockOwner, poisoned, native, envPath, signalCount,
                   closing, nextEnv, pc, events, local>>

\* OpenOccupied looking at the entry's handle before the options
OpenOccupied_ClosingFirst(t, raw, opts) ==
    /\ pc[t] = "idle"
    /\ HandleCount(t) < MaxHandles
    /\ canonicalize_path(raw) # {}
    /\ CanLock
    /\ registry[Canonical(raw)].present
    /\ LET entry == registry[Canonical(raw)] IN
       IF entry.env = {}
       THEN /\ result' = OpenRet("DatabaseClosing", {}, "closing")
            /\ UNCHANGED <<strong, handles>>
       ELSE IF entry.options # opts
       THEN /\ result' = OpenRet("BadOpenOptions", {}, EntryState(entry))
            /\ UNCHANGED <<strong, handles>>
       ELSE LET e == CHOOSE x \in entry.env : TRUE IN
            /\ strong' = [strong EXCEPT ![e] = @ + 1]
            /\ handles' = [handles EXCEPT ![t][e] = @ + 1]
            /\ result' = OpenRet("Ok", {e}, "open")
    /\ UNCHANGED <<dbVars, tblVars, storeVars>>
    /\ UNCHANGED <<registry, lockOwner, poisoned, native, envPath, signalCount,
                   closing, nextEnv, pc, events, local>>

\* lines 200-208, Entry::Occupied: under the write lock the options are
\* compared first, then the entry's handle is cloned, or the entry is a
\* closing one. The lock guard is dropped on return.
OpenOccupied(t, raw, opts) ==
    /\ pc[t] = "idle"
    /\ HandleCount(t) < MaxHandles
    /\ canonicalize_path(raw) # {}
    /\ CanLock
    /\ registry[Canonical(raw)].present
    /\ LET entry == registry[Canonical(raw)] IN
       IF entry.options # opts
       THEN /\ result' = OpenRet("BadOpenOptions", {}, EntryState(entry))
            /\ UNCHANGED <<strong, handles>>
       ELSE IF entry.env = {}
       THEN /\ result' = OpenRet("DatabaseClosing", {}, "closing")
            /\ UNCHANGED <<strong, handles>>
       ELSE LET e == CHOOSE x \in entry.env : TRUE IN
            /\ strong' = [strong EXCEPT ![e] = @ + 1]
            /\ handles' = [handles EXCEPT ![t][e] = @ + 1]
            /\ result' = OpenRet("Ok", {e}, "open")
    /\ UNCHANGED <<dbVars, tblVars, storeVars>>
    /\ UNCHANGED <<registry, lockOwner, poisoned, native, envPath, signalCount,
                   closing, nextEnv, pc, events, local>>

\* OpenVacant taking a closing entry (env: None) for a vacant one
OpenVacant_ClosingAsVacant(t, raw, opts, ok) ==
    /\ pc[t] = "idle"
    /\ HandleCount(t) < MaxHandles
    /\ canonicalize_path(raw) # {}
    /\ CanLock
    /\ registry[Canonical(raw)].env = {}
    /\ lockOwner' = {t}
    /\ IF ok /\ nextEnv <= MaxEnvs
       THEN /\ native' = [native EXCEPT ![nextEnv] = "opening"]
            /\ envPath' = [envPath EXCEPT ![nextEnv] = Canonical(raw)]
            /\ local' = [local EXCEPT ![t] =
                  [NoLocal EXCEPT !.path = Canonical(raw), !.options = opts,
                                  !.env = {nextEnv}]]
            /\ nextEnv' = nextEnv + 1
       ELSE /\ local' = [local EXCEPT ![t] =
                  [NoLocal EXCEPT !.path = Canonical(raw), !.options = opts]]
            /\ UNCHANGED <<native, envPath, nextEnv>>
    /\ pc' = [pc EXCEPT ![t] = "open_native"]
    /\ UNCHANGED <<dbVars, tblVars, storeVars>>
    /\ UNCHANGED <<registry, poisoned, strong, signalCount, closing, handles,
                   events, result>>

\* lines 200-266, Entry::Vacant: mdb_env_create, the setters and
\* mdb_env_open are called with the registry lock held. ok is the native
\* result; the model has MaxEnvs identities for environments that open.
OpenVacant(t, raw, opts, ok) ==
    /\ pc[t] = "idle"
    /\ HandleCount(t) < MaxHandles
    /\ canonicalize_path(raw) # {}
    /\ CanLock
    /\ ~registry[Canonical(raw)].present
    /\ lockOwner' = {t}
    /\ IF ok /\ nextEnv <= MaxEnvs
       THEN /\ native' = [native EXCEPT ![nextEnv] = "opening"]
            /\ envPath' = [envPath EXCEPT ![nextEnv] = Canonical(raw)]
            /\ local' = [local EXCEPT ![t] =
                  [NoLocal EXCEPT !.path = Canonical(raw), !.options = opts,
                                  !.env = {nextEnv}]]
            /\ nextEnv' = nextEnv + 1
       ELSE /\ local' = [local EXCEPT ![t] =
                  [NoLocal EXCEPT !.path = Canonical(raw), !.options = opts]]
            /\ UNCHANGED <<native, envPath, nextEnv>>
    /\ pc' = [pc EXCEPT ![t] = "open_native"]
    /\ UNCHANGED <<dbVars, tblVars, storeVars>>
    /\ UNCHANGED <<registry, poisoned, strong, signalCount, closing, handles,
                   events, result>>

\* OpenNativeDone leaving an entry without a handle for the path when the
\* native open has failed
OpenNativeDone_EntryOnError(t) ==
    /\ pc[t] = "open_native"
    /\ IF local[t].env = {}
       THEN /\ result' = OpenRet("Mdb", {}, "vacant")
            /\ registry' = [registry EXCEPT ![local[t].path] =
                               [Vacant EXCEPT !.present = TRUE,
                                              !.options = local[t].options]]
            /\ UNCHANGED <<strong, native, handles>>
       ELSE LET e == CHOOSE x \in local[t].env : TRUE IN
            /\ native' = [native EXCEPT ![e] = "open"]
            /\ registry' = [registry EXCEPT ![local[t].path] =
                               EnvEntry({e}, e, local[t].options)]
            /\ strong' = [strong EXCEPT ![e] = 2]
            /\ handles' = [handles EXCEPT ![t][e] = @ + 1]
            /\ result' = OpenRet("Ok", {e}, "vacant")
    /\ lockOwner' = {}
    /\ pc' = [pc EXCEPT ![t] = "idle"]
    /\ local' = [local EXCEPT ![t] = NoLocal]
    /\ UNCHANGED <<dbVars, tblVars, storeVars>>
    /\ UNCHANGED <<poisoned, envPath, signalCount, closing, nextEnv, events>>

\* OpenNativeDone with a registry entry that holds no reference of its own:
\* the Env returned is the only clone
OpenNativeDone_NoOwnReference(t) ==
    /\ pc[t] = "open_native"
    /\ IF local[t].env = {}
       THEN /\ result' = OpenRet("Mdb", {}, "vacant")
            /\ UNCHANGED <<registry, strong, native, handles>>
       ELSE LET e == CHOOSE x \in local[t].env : TRUE IN
            /\ native' = [native EXCEPT ![e] = "open"]
            /\ registry' = [registry EXCEPT ![local[t].path] =
                               EnvEntry({e}, e, local[t].options)]
            /\ strong' = [strong EXCEPT ![e] = 1]
            /\ handles' = [handles EXCEPT ![t][e] = @ + 1]
            /\ result' = OpenRet("Ok", {e}, "vacant")
    /\ lockOwner' = {}
    /\ pc' = [pc EXCEPT ![t] = "idle"]
    /\ local' = [local EXCEPT ![t] = NoLocal]
    /\ UNCHANGED <<dbVars, tblVars, storeVars>>
    /\ UNCHANGED <<poisoned, envPath, signalCount, closing, nextEnv, events>>

\* lines 268-289: on Ok the EnvInner is built, a clone of the Env is stored
\* in the new registry entry and the Env is returned; on Err the native
\* environment is closed and nothing is inserted
OpenNativeDone(t) ==
    /\ pc[t] = "open_native"
    /\ IF local[t].env = {}
       THEN /\ result' = OpenRet("Mdb", {}, "vacant")
            /\ UNCHANGED <<registry, strong, native, handles>>
       ELSE LET e == CHOOSE x \in local[t].env : TRUE IN
            /\ native' = [native EXCEPT ![e] = "open"]
            /\ registry' = [registry EXCEPT ![local[t].path] =
                               EnvEntry({e}, e, local[t].options)]
            /\ strong' = [strong EXCEPT ![e] = 2]
            /\ handles' = [handles EXCEPT ![t][e] = @ + 1]
            /\ result' = OpenRet("Ok", {e}, "vacant")
    /\ lockOwner' = {}
    /\ pc' = [pc EXCEPT ![t] = "idle"]
    /\ local' = [local EXCEPT ![t] = NoLocal]
    /\ UNCHANGED <<dbVars, tblVars, storeVars>>
    /\ UNCHANGED <<poisoned, envPath, signalCount, closing, nextEnv, events>>

\* #[derive(Clone)] Env(Arc<EnvInner>), line 302: thread t clones a handle
\* it owns and keeps the clone or moves it to an idle thread t2 (Env is Send)
CloneEnv(t, e, t2) ==
    /\ pc[t] = "idle"
    /\ pc[t2] = "idle"
    /\ handles[t][e] > 0
    /\ HandleCount(t2) < MaxHandles
    /\ strong' = [strong EXCEPT ![e] = @ + 1]
    /\ handles' = [handles EXCEPT ![t2][e] = @ + 1]
    /\ UNCHANGED <<dbVars, tblVars, storeVars>>
    /\ UNCHANGED <<registry, lockOwner, poisoned, native, envPath, signalCount,
                   closing, nextEnv, pc, events, local, result>>

\* ReleaseClone without the reference count: every release of a clone runs
\* EnvInner::drop
ReleaseClone_NoCount(t, e, pending) ==
    /\ strong' = [strong EXCEPT ![e] = @ - 1]
    /\ pc' = [pc EXCEPT ![t] = "drop_wait"]
    /\ local' = [local EXCEPT ![t] = [NoLocal EXCEPT !.env = {e}, !.pending = pending]]

\* Releasing one Arc clone of environment e by thread t: the strong count
\* is decremented and the thread that releases the last clone runs
\* EnvInner::drop (line 315); pending is the number of clones the running
\* call still has to release afterwards.
ReleaseClone(t, e, pending) ==
    /\ strong' = [strong EXCEPT ![e] = @ - 1]
    /\ pc' = [pc EXCEPT ![t] = IF strong[e] = 1 THEN "drop_wait"
                                ELSE IF pending > 0 THEN "release" ELSE "idle"]
    /\ local' = [local EXCEPT ![t] =
          IF strong[e] = 1 \/ pending > 0
          THEN [NoLocal EXCEPT !.env = {e}, !.pending = pending]
          ELSE NoLocal]

\* the user code of thread t drops an Env clone it owns
DropHandle(t, e) ==
    /\ pc[t] = "idle"
    /\ handles[t][e] > 0
    /\ handles' = [handles EXCEPT ![t][e] = @ - 1]
    /\ ReleaseClone(t, e, 0)
    /\ UNCHANGED <<dbVars, tblVars, storeVars>>
    /\ UNCHANGED <<registry, lockOwner, poisoned, native, envPath, signalCount,
                   closing, nextEnv, events, result>>

\* the locals of prepare_for_closing going out of scope (lines 606-617):
\* the handle taken from the registry, then self
Release(t) ==
    /\ pc[t] = "release"
    /\ LET e == CHOOSE x \in local[t].env : TRUE IN
       ReleaseClone(t, e, local[t].pending - 1)
    /\ UNCHANGED <<dbVars, tblVars, storeVars>>
    /\ UNCHANGED <<registry, lockOwner, poisoned, native, envPath, signalCount,
                   closing, nextEnv, handles, events, result>>

\* DropRemove looking the entry up (get) instead of removing it
DropRemove_KeepsEntry(t) ==
    /\ pc[t] = "drop_wait"
    /\ CanLock
    /\ LET e == CHOOSE x \in local[t].env : TRUE
           entry == registry[envPath[e]] IN
       /\ native' = [native EXCEPT ![e] = "closing"]
       /\ local' = [local EXCEPT ![t].ev = entry.signal_event]
       /\ pc' = [pc EXCEPT ![t] = "drop_native"]
       /\ lockOwner' = {t}
    /\ UNCHANGED <<dbVars, tblVars, storeVars>>
    /\ UNCHANGED <<registry, poisoned, strong, envPath, signalCount, closing,
                   nextEnv, handles, events, result>>

\* EnvInner::drop, lines 317-323: under the write lock the entry of
\* self.path is removed (a panic if there is none), then mdb_env_close is
\* called with the lock held
DropRemove(t) ==
    /\ pc[t] = "drop_wait"
    /\ CanLock
    /\ LET e == CHOOSE x \in local[t].env : TRUE
           entry == registry[envPath[e]] IN
       IF ~entry.present
       THEN /\ pc' = [pc EXCEPT ![t] = "panicked"]
            /\ poisoned' = TRUE
            /\ UNCHANGED <<registry, native, local, lockOwner>>
       ELSE /\ registry' = [registry EXCEPT ![envPath[e]] = Vacant]
            /\ native' = [native EXCEPT ![e] = "closing"]
            /\ local' = [local EXCEPT ![t].ev = entry.signal_event]
            /\ pc' = [pc EXCEPT ![t] = "drop_native"]
            /\ lockOwner' = {t}
            /\ UNCHANGED poisoned
    /\ UNCHANGED <<dbVars, tblVars, storeVars>>
    /\ UNCHANGED <<strong, envPath, signalCount, closing, nextEnv, handles,
                   events, result>>

\* lines 323-329: mdb_env_close has returned, the waiters are signaled and
\* the lock guard is dropped
DropSignal(t) ==
    /\ pc[t] = "drop_native"
    /\ LET e == CHOOSE x \in local[t].env : TRUE
           ev == CHOOSE x \in local[t].ev : TRUE IN
       /\ native' = [native EXCEPT ![e] = "closed"]
       /\ signalCount' = [signalCount EXCEPT ![ev] = @ + 1]
       /\ pc' = [pc EXCEPT ![t] = IF local[t].pending > 0 THEN "release" ELSE "idle"]
       /\ local' = [local EXCEPT ![t] =
             IF local[t].pending > 0 THEN [@ EXCEPT !.ev = {}] ELSE NoLocal]
    /\ lockOwner' = {}
    /\ UNCHANGED <<dbVars, tblVars, storeVars>>
    /\ UNCHANGED <<registry, poisoned, strong, envPath, closing, nextEnv,
                   handles, events, result>>

\* PfcTake removing the registry entry instead of replacing its handle by None
PfcTake_RemovesEntry(t, e) ==
    /\ pc[t] = "idle"
    /\ handles[t][e] > 0
    /\ CanLock
    /\ handles' = [handles EXCEPT ![t][e] = @ - 1]
    /\ LET entry == registry[envPath[e]] IN
       /\ registry' = [registry EXCEPT ![envPath[e]] = Vacant]
       /\ closing' = closing \cup {e}
       /\ events' = events \cup entry.signal_event
       /\ result' = Ret("prepare_for_closing", "Ok", entry.signal_event)
       /\ local' = [local EXCEPT ![t] =
             [NoLocal EXCEPT !.env = {e}, !.pending = 1 + Cardinality(entry.env)]]
       /\ pc' = [pc EXCEPT ![t] = "release"]
    /\ UNCHANGED <<dbVars, tblVars, storeVars>>
    /\ UNCHANGED <<lockOwner, poisoned, strong, native, envPath, signalCount, nextEnv>>

\* PfcTake without drop(lock): the taken handle and self are dropped with
\* the write lock still held
PfcTake_KeepsLock(t, e) ==
    /\ pc[t] = "idle"
    /\ handles[t][e] > 0
    /\ CanLock
    /\ handles' = [handles EXCEPT ![t][e] = @ - 1]
    /\ LET entry == registry[envPath[e]] IN
       /\ registry' = [registry EXCEPT ![envPath[e]].env = {}]
       /\ closing' = closing \cup {e}
       /\ events' = events \cup entry.signal_event
       /\ result' = Ret("prepare_for_closing", "Ok", entry.signal_event)
       /\ local' = [local EXCEPT ![t] =
             [NoLocal EXCEPT !.env = {e}, !.pending = 1 + Cardinality(entry.env)]]
       /\ pc' = [pc EXCEPT ![t] = "release"]
    /\ lockOwner' = {t}
    /\ UNCHANGED <<dbVars, tblVars, storeVars>>
    /\ UNCHANGED <<poisoned, strong, native, envPath, signalCount, nextEnv>>

\* PfcTake signaling the event itself, before the last clone is dropped
PfcTake_Signals(t, e) ==
    /\ pc[t] = "idle"
    /\ handles[t][e] > 0
    /\ CanLock
    /\ handles' = [handles EXCEPT ![t][e] = @ - 1]
    /\ LET entry == registry[envPath[e]] IN
       IF ~entry.present
       THEN /\ pc' = [pc EXCEPT ![t] = "panicked"]
            /\ poisoned' = TRUE
            /\ UNCHANGED <<registry, closing, events, local, result>>
       ELSE /\ registry' = [registry EXCEPT ![envPath[e]].env = {}]
            /\ closing' = closing \cup {e}
            /\ events' = events \cup entry.signal_event
            /\ result' = Ret("prepare_for_closing", "Ok", entry.signal_event)
            /\ local' = [local EXCEPT ![t] =
                  [NoLocal EXCEPT !.env = {e},
                                  !.pending = 1 + Cardinality(entry.env)]]
            /\ pc' = [pc EXCEPT ![t] = "release"]
            /\ UNCHANGED poisoned
    /\ UNCHANGED <<dbVars, tblVars, storeVars>>
    /\ signalCount' = [signalCount EXCEPT ![e] = 1]
    /\ UNCHANGED <<lockOwner, strong, native, envPath, nextEnv>>

\* Env::prepare_for_closing(self), lines 598-615: self is moved into the
\* call; under the write lock the entry of self.path is looked up (a panic
\* if there is none), its handle is taken and replaced by None, the event
\* is cloned and the lock is released before the taken handle and self are
\* dropped
PfcTake(t, e) ==
    /\ pc[t] = "idle"
    /\ handles[t][e] > 0
    /\ CanLock
    /\ handles' = [handles EXCEPT ![t][e] = @ - 1]
    /\ LET entry == registry[envPath[e]] IN
       IF ~entry.present
       THEN /\ pc' = [pc EXCEPT ![t] = "panicked"]
            /\ poisoned' = TRUE
            /\ UNCHANGED <<registry, closing, events, local, result>>
       ELSE /\ registry' = [registry EXCEPT ![envPath[e]].env = {}]
            /\ closing' = closing \cup {e}
            /\ events' = events \cup entry.signal_event
            /\ result' = Ret("prepare_for_closing", "Ok", entry.signal_event)
            /\ local' = [local EXCEPT ![t] =
                  [NoLocal EXCEPT !.env = {e},
                                  !.pending = 1 + Cardinality(entry.env)]]
            /\ pc' = [pc EXCEPT ![t] = "release"]
            /\ UNCHANGED poisoned
    /\ UNCHANGED <<dbVars, tblVars, storeVars>>
    /\ UNCHANGED <<lockOwner, strong, native, envPath, signalCount, nextEnv>>

\* EnvClosingEvent::wait, line 630: blocks until the event is signaled.
\* EnvClosingEvent is Clone and Send: any thread may wait on an event that
\* was handed out.
WaitBegin(t, ev) ==
    /\ pc[t] = "idle"
    /\ ev \in events
    /\ pc' = [pc EXCEPT ![t] = "waiting"]
    /\ local' = [local EXCEPT ![t] = [NoLocal EXCEPT !.ev = {ev}]]
    /\ UNCHANGED <<dbVars, tblVars, storeVars>>
    /\ UNCHANGED <<registry, lockOwner, poisoned, strong, native, envPath,
                   signalCount, closing, nextEnv, handles, events, result>>

WaitReturn(t) ==
    /\ pc[t] = "waiting"
    /\ \E ev \in local[t].ev : signalCount[ev] > 0
    /\ pc' = [pc EXCEPT ![t] = "idle"]
    /\ result' = Ret("wait", "returned", local[t].ev)
    /\ local' = [local EXCEPT ![t] = NoLocal]
    /\ UNCHANGED <<dbVars, tblVars, storeVars>>
    /\ UNCHANGED <<registry, lockOwner, poisoned, strong, native, envPath,
                   signalCount, closing, nextEnv, handles, events>>

\* EnvClosingEvent::wait_timeout, line 637: true iff the event was signaled
\* before the timeout elapses
wait_timeout(ev) == signalCount[ev] > 0

\* a call of wait_timeout changes nothing
WaitTimeout(t, ev) ==
    /\ pc[t] = "idle"
    /\ ev \in events
    /\ wait_timeout(ev) \in BOOLEAN
    /\ UNCHANGED <<dbVars, tblVars, storeVars>>
    /\ UNCHANGED <<registry, lockOwner, poisoned, strong, native, envPath,
                   signalCount, closing, nextEnv, pc, handles, events, local,
                   result>>

\* env_closing_event(path), lines 297-300: a read lock, and a lookup of the
\* path as given (it is not canonicalized); None is {}
env_closing_event(raw) ==
    IF raw \in Paths THEN registry[raw].signal_event ELSE {}

\* a call of env_closing_event hands the event out
EnvClosingEventCall(t, raw) ==
    /\ pc[t] = "idle"
    /\ CanLock
    /\ events' = events \cup env_closing_event(raw)
    /\ UNCHANGED <<dbVars, tblVars, storeVars>>
    /\ UNCHANGED <<registry, lockOwner, poisoned, strong, native, envPath,
                   signalCount, closing, nextEnv, pc, handles, local, result>>

--------------------------------------------------------------------------
(***************************************************************************)
(* The databases of one environment: Env::open_database and its siblings,  *)
(* heed/src/env.rs lines 424-521                                           *)
(***************************************************************************)

\* EnvOpenOptions::max_dbs: the named databases the engine lets one
\* environment have
MaxDbs == 1

\* Option<&str>: "none" is None, the unnamed database
DbNames == {"none", "a", "b"}
\* dbi handles of the engine: 1 is the unnamed database
Dbis == 1 .. (MaxDbs + 1)
\* (TypeId::of::<KC>(), TypeId::of::<DC>())
CodecPairs == {<<"Str", "Str">>, <<"Str", "SerdeJson">>}

\* an absent entry of the HashMap<u32, Option<(TypeId, TypeId)>>
NoRecord == [present |-> FALSE, types |-> {}]
Recorded(types) == [present |-> TRUE, types |-> types]

NoDbLocal == [api |-> "none", name |-> "none", types |-> {}]
NoDbResult == [api |-> "none", types |-> {}, ret |-> "none", dbi |-> 0]

InitDb ==
    /\ dbiMutex = {}
    /\ dbiOf = [n \in DbNames \ {"none"} |-> 0]
    /\ typeRec = [d \in Dbis |-> NoRecord]
    /\ firstTyped = [d \in Dbis |-> {}]
    /\ dbPc = [t \in Threads |-> "idle"]
    /\ dbLocal = [t \in Threads |-> NoDbLocal]
    /\ dbResult = NoDbResult

\* the create argument the four entry points pass to raw_init_database
CreateFlag(api) == api \in {"create_database", "create_poly_database"}

\* the named databases the environment has
NamedCount == Cardinality({n \in DOMAIN dbiOf : dbiOf[n] # 0})

\* raw_open_dbi, lines 480-498: mdb_dbi_open. The unnamed database always
\* exists; a named database that exists is returned with the dbi it has; a
\* missing one is created when MDB_CREATE is given and the environment has
\* room for it (MDB_DBS_FULL otherwise) and is MDB_NOTFOUND without the
\* flag. ok = FALSE is any other failure of the engine.
raw_open_dbi(name, create, ok) ==
    IF ~ok THEN [rc |-> "Other", dbi |-> 0]
    ELSE IF name = "none" THEN [rc |-> "Ok", dbi |-> 1]
    ELSE IF dbiOf[name] # 0 THEN [rc |-> "Ok", dbi |-> dbiOf[name]]
    ELSE IF ~create THEN [rc |-> "NotFound", dbi |-> 0]
    ELSE IF NamedCount >= MaxDbs THEN [rc |-> "DbsFull", dbi |-> 0]
    ELSE [rc |-> "Ok", dbi |-> NamedCount + 2]

\* an insert instead of or_insert: the types of the call replace the record
OrInsert_Replaces(rec, dbi, types) == [rec EXCEPT ![dbi] = Recorded(types)]

\* lock.entry(dbi).or_insert(types), line 512: the map afterwards
OrInsert(rec, dbi, types) ==
    IF rec[dbi].present THEN rec ELSE [rec EXCEPT ![dbi] = Recorded(types)]

\* raw_init_database, lines 507-520, from the native open on: the result,
\* the dbi and the type record afterwards
raw_init_database(name, types, create, ok) ==
    LET r == raw_open_dbi(name, create, ok) IN
    IF r.rc = "Ok"
    THEN LET rec == OrInsert(typeRec, r.dbi, types) IN
         [ret |-> IF rec[r.dbi].types = types THEN "Ok" ELSE "InvalidDatabaseTyping",
          dbi |-> r.dbi, rec |-> rec]
    ELSE [ret |-> r.rc, dbi |-> 0, rec |-> typeRec]

\* what the entry point returns for the result of raw_init_database:
\* open_database and open_poly_database turn not_found into Ok(None)
ApiResult(api, ret) ==
    IF ret = "Ok" THEN "Ok"
    ELSE IF ret = "InvalidDatabaseTyping" THEN "InvalidDatabaseTyping"
    ELSE IF ret = "NotFound" /\ ~CreateFlag(api) THEN "OkNone"
    ELSE "Mdb"

\* raw_init_database, line 507: the call takes dbi_open_mutex and enters
\* mdb_dbi_open with the mutex held
RawInitLock(t) ==
    /\ dbPc[t] = "idle"
    /\ dbiMutex = {}
    /\ dbiMutex' = {t}
    /\ dbPc' = [dbPc EXCEPT ![t] = "dbi_open"]
    /\ UNCHANGED <<dbiOf, typeRec, firstTyped, dbResult>>
    /\ UNCHANGED <<envVars, tblVars, storeVars>>

DbCall(api, name, types) == [api |-> api, name |-> name, types |-> types]

\* Env::open_database::<KC, DC>(rtxn, name), lines 424-439
open_database(t, name, pair) ==
    /\ RawInitLock(t)
    /\ dbLocal' = [dbLocal EXCEPT ![t] = DbCall("open_database", name, {pair})]

\* Env::open_poly_database(rtxn, name), lines 441-451
open_poly_database(t, name) ==
    /\ RawInitLock(t)
    /\ dbLocal' = [dbLocal EXCEPT ![t] = DbCall("open_poly_database", name, {})]

\* Env::create_database::<KC, DC>(wtxn, name), lines 453-467
create_database(t, name, pair) ==
    /\ RawInitLock(t)
    /\ dbLocal' = [dbLocal EXCEPT ![t] = DbCall("create_database", name, {pair})]

\* Env::create_poly_database(wtxn, name), lines 469-478
create_poly_database(t, name) ==
    /\ RawInitLock(t)
    /\ dbLocal' = [dbLocal EXCEPT ![t] = DbCall("create_poly_database", name, {})]

\* lines 510-520 and the entry point's match: mdb_dbi_open returns, the
\* types are recorded and compared, the mutex guard is dropped
RawInitDone(t, ok) ==
    /\ dbPc[t] = "dbi_open"
    /\ LET l == dbLocal[t]
           r == raw_init_database(l.name, l.types, CreateFlag(l.api), ok) IN
       /\ typeRec' = r.rec
       /\ dbiOf' = IF r.dbi > 1 THEN [dbiOf EXCEPT ![l.name] = r.dbi] ELSE dbiOf
       /\ firstTyped' = IF r.dbi # 0 /\ l.types # {} /\ firstTyped[r.dbi] = {}
                        THEN [firstTyped EXCEPT ![r.dbi] = l.types]
                        ELSE firstTyped
       /\ dbResult' = [api |-> l.api, types |-> l.types,
                       ret |-> ApiResult(l.api, r.ret), dbi |-> r.dbi]
    /\ dbiMutex' = {}
    /\ dbPc' = [dbPc EXCEPT ![t] = "idle"]
    /\ dbLocal' = [dbLocal EXCEPT ![t] = NoDbLocal]
    /\ UNCHANGED <<envVars, tblVars, storeVars>>

--------------------------------------------------------------------------
(***************************************************************************)
(* Table operations: PolyDatabase, heed/src/db/polymorph.rs, with the      *)
(* codecs of heed-types. One client opens and closes environments, begins  *)
(* and ends transactions and uses a database handle.                       *)
(***************************************************************************)

TblEnvs == {"A", "B"}
\* addresses the allocator gives a native MDB_env; "null": no native env
Addrs == {"0x1", "0x2"}

\* codecs: Str and FixedSlice<u8, 2>. A typed item is a sequence of
\* integers: the code points of a str, the bytes of a [u8; 2].
KeyCodecs == {"Str"}
DataCodecs == {"Str", "FixedSlice"}
KeyItems(kc) == {<<97>>, <<233>>}
DataItems(dc) ==
    IF dc = "Str" THEN {<<233>>} ELSE {<<195, 169>>, <<255, 255>>}

RECURSIVE Concat(_)
Concat(ss) == IF ss = <<>> THEN <<>> ELSE Head(ss) \o Concat(Tail(ss))

\* UTF-8 of one code point below 0x800
Utf8(cp) == IF cp < 128 THEN <<cp>> ELSE <<192 + (cp \div 64), 128 + (cp % 64)>>

\* std::str::from_utf8 for one- and two-byte sequences: the code points, or
\* {} when the bytes are not UTF-8
RECURSIVE FromUtf8(_)
FromUtf8(bytes) ==
    IF bytes = <<>> THEN {<<>>}
    ELSE IF bytes[1] < 128
    THEN {<<bytes[1]>> \o s : s \in FromUtf8(Tail(bytes))}
    ELSE IF /\ bytes[1] \in 194 .. 223
            /\ Len(bytes) >= 2
            /\ bytes[2] \in 128 .. 191
    THEN {<<(bytes[1] - 192) * 64 + (bytes[2] - 128)>> \o s :
             s \in FromUtf8(Tail(Tail(bytes)))}
    ELSE {}

\* serde_json::to_vec of a PathBuf, whose item is the bytes of the path:
\* the JSON string of the path, an error when the path is not UTF-8
\* (Serialize for Path)
to_vec(item) ==
    IF FromUtf8(item) = {} THEN {} ELSE {<<34>> \o item \o <<34>>}

\* serde_json::from_slice to a PathBuf: the content of a JSON string
\* without escapes
from_slice(bytes) ==
    IF /\ Len(bytes) >= 2
       /\ bytes[1] = 34
       /\ bytes[Len(bytes)] = 34
       /\ \A i \in 2 .. Len(bytes) - 1 : bytes[i] >= 32 /\ bytes[i] \notin {34, 92}
       /\ FromUtf8(SubSeq(bytes, 2, Len(bytes) - 1)) # {}
    THEN {SubSeq(bytes, 2, Len(bytes) - 1)}
    ELSE {}

\* BytesEncode::bytes_encode: Option<Cow<[u8]>> as a set. Str: as_bytes of
\* the str (str.rs line 13); SerdeJson<PathBuf>: serde_json::to_vec(item).ok()
\* (serde_json.rs line 19); FixedSlice: as_bytes of the array
\* (fixed_slice.rs line 16).
bytes_encode(codec, item) ==
    IF codec = "Str" THEN {Concat([i \in 1 .. Len(item) |-> Utf8(item[i])])}
    ELSE IF codec = "SerdeJson" THEN to_vec(item)
    ELSE {item}

\* BytesDecode::bytes_decode: Str is from_utf8(bytes).ok() (str.rs line 21);
\* SerdeJson is serde_json::from_slice(bytes).ok() (serde_json.rs line 30);
\* FixedSlice asserts the length of the bytes (fixed_slice.rs line 29);
\* ByteSlice (heed-types, used by store/mod.rs line 312) is the bytes of a
\* [u8], encoded and decoded as they are
bytes_decode(codec, bytes) ==
    IF codec = "Str" THEN [panic |-> FALSE, item |-> FromUtf8(bytes)]
    ELSE IF codec = "ByteSlice" THEN [panic |-> FALSE, item |-> {bytes}]
    ELSE IF codec = "SerdeJson" THEN [panic |-> FALSE, item |-> from_slice(bytes)]
    ELSE IF Len(bytes) = 2 THEN [panic |-> FALSE, item |-> {bytes}]
    ELSE [panic |-> TRUE, item |-> {}]

\* a table: the function from the stored key bytes to their data bytes
EmptyTable == <<>>

\* PolyDatabase { env_ident, dbi }; of is a ghost field, the environment
\* whose open_poly_database returned the handle
PolyDatabase(env_ident, dbi, of) ==
    [present |-> TRUE, env_ident |-> env_ident, dbi |-> dbi, of |-> of]
NoDatabase == [present |-> FALSE, env_ident |-> "null", dbi |-> 0, of |-> "A"]

\* RoTxn / RwTxn { txn, env }: work is what the transaction sees
NoTxn == [kind |-> "none", env |-> "A", work |-> EmptyTable]
Txn(kind, env, work) == [kind |-> kind, env |-> env, work |-> work]

\* the sequence: store is the committed counter of each environment, work
\* the counter the client's transaction sees. old is a ghost: the counter
\* that was committed when the write transaction began which is active or
\* was aborted last, NoOld when the last one committed. reader is the read
\* transaction of another thread: snap is the counter it sees, expect a
\* ghost, old when it began, and got what its last read returned.
NoOld == 0 - 1
NoReader == [open |-> FALSE, snap |-> 0, expect |-> NoOld, got |-> {}]

NoTblResult == [op |-> "none", ret |-> "none", val |-> {}, had |-> FALSE]
TblRet(op, ret, val, had) == [op |-> op, ret |-> ret, val |-> val, had |-> had]

InitTbl ==
    /\ envAddr = [e \in TblEnvs |-> "null"]
    /\ store = [e \in TblEnvs |-> EmptyTable]
    /\ txn = NoTxn
    /\ db = NoDatabase
    /\ tblResult = NoTblResult
    /\ seq = [store |-> [e \in TblEnvs |-> 0], work |-> 0, old |-> NoOld,
              reader |-> NoReader]

\* EnvOpenOptions::open of a path that is not open, lines 211-266:
\* mdb_env_create allocates the native environment at an address no live
\* native environment has
TblEnvOpen(e, a) ==
    /\ envAddr[e] = "null"
    /\ \A f \in TblEnvs : envAddr[f] # a
    /\ envAddr' = [envAddr EXCEPT ![e] = a]
    /\ UNCHANGED <<store, txn, db, tblResult>>
    /\ UNCHANGED <<envVars, dbVars, seq, storeVars>>

\* the last clone of a closing environment is dropped, lines 315-330:
\* mdb_env_close frees the native environment. A transaction borrows its
\* Env, so none is active.
TblEnvClose(e) ==
    /\ envAddr[e] # "null"
    /\ ~(txn.kind # "none" /\ txn.env = e)
    /\ envAddr' = [envAddr EXCEPT ![e] = "null"]
    /\ UNCHANGED <<store, txn, db, tblResult>>
    /\ UNCHANGED <<envVars, dbVars, seq, storeVars>>

\* Env::read_txn, line 538
ReadTxn(e) ==
    /\ envAddr[e] # "null"
    /\ txn.kind = "none"
    /\ txn' = Txn("ro", e, store[e])
    /\ seq' = [seq EXCEPT !.work = seq.store[e]]
    /\ UNCHANGED <<envAddr, store, db, tblResult>>
    /\ UNCHANGED <<envVars, dbVars, storeVars>>

\* Env::write_txn, line 523
WriteTxn(e) ==
    /\ envAddr[e] # "null"
    /\ txn.kind = "none"
    /\ txn' = Txn("rw", e, store[e])
    /\ seq' = [seq EXCEPT !.work = seq.store[e], !.old = seq.store[e]]
    /\ UNCHANGED <<envAddr, store, db, tblResult>>
    /\ UNCHANGED <<envVars, dbVars, storeVars>>

\* commit of the transaction: the writes of a write transaction, the
\* increases of the sequence included, become the content of its
\* environment. What the client got from the transaction,
\* which borrows it, is gone with it.
Commit ==
    /\ txn.kind # "none"
    /\ store' = IF txn.kind = "rw" THEN [store EXCEPT ![txn.env] = txn.work]
                ELSE store
    /\ seq' = IF txn.kind = "rw"
              THEN [seq EXCEPT !.store[txn.env] = seq.work, !.work = 0,
                               !.old = NoOld]
              ELSE [seq EXCEPT !.work = 0]
    /\ txn' = NoTxn
    /\ tblResult' = NoTblResult
    /\ UNCHANGED <<envAddr, db>>
    /\ UNCHANGED <<envVars, dbVars, storeVars>>

\* abort publishing the sequence of the transaction
Abort_KeepsSequence ==
    /\ txn.kind # "none"
    /\ txn' = NoTxn
    /\ seq' = IF txn.kind = "rw"
              THEN [seq EXCEPT !.store[txn.env] = seq.work, !.work = 0]
              ELSE [seq EXCEPT !.work = 0]
    /\ tblResult' = NoTblResult
    /\ UNCHANGED <<envAddr, store, db>>
    /\ UNCHANGED <<envVars, dbVars, storeVars>>

\* abort, or drop, of the transaction: its writes are discarded
Abort ==
    /\ txn.kind # "none"
    /\ txn' = NoTxn
    /\ seq' = [seq EXCEPT !.work = 0]
    /\ tblResult' = NoTblResult
    /\ UNCHANGED <<envAddr, store, db>>
    /\ UNCHANGED <<envVars, dbVars, storeVars>>

\* Env::open_poly_database(rtxn, None), lines 441-451: the handle of the
\* unnamed database, PolyDatabase::new(self.env_mut_ptr() as _, dbi)
OpenPoly ==
    /\ txn.kind # "none"
    /\ db' = PolyDatabase(envAddr[txn.env], 1, txn.env)
    /\ UNCHANGED <<envAddr, store, txn, tblResult>>
    /\ UNCHANGED <<envVars, dbVars, seq, storeVars>>

\* assert_eq!(self.env_ident, txn.env.env_mut_ptr() as usize), the first
\* statement of every operation of PolyDatabase, passes
SameEnvIdent(h, tx) == h.env_ident = envAddr[tx.env]

\* mdb_get: the data stored under the key bytes, {} for MDB_NOTFOUND
mdb_get(tbl, k) == IF k \in DOMAIN tbl THEN {tbl[k]} ELSE {}

\* mdb_put with flags 0: the data of the key is stored or replaced
mdb_put(tbl, k, v) == (k :> v) @@ tbl

\* PolyDatabase::get::<KC, DC>(txn, key), lines 276-305
get(h, tx, kc, dc, key) ==
    IF ~SameEnvIdent(h, tx) THEN [ret |-> "panic", val |-> {}]
    ELSE LET key_bytes == bytes_encode(kc, key) IN
    IF key_bytes = {} THEN [ret |-> "Encoding", val |-> {}]
    ELSE LET found == mdb_get(tx.work, CHOOSE k \in key_bytes : TRUE) IN
    IF found = {} THEN [ret |-> "Ok", val |-> {}]
    ELSE LET data == bytes_decode(dc, CHOOSE v \in found : TRUE) IN
    IF data.panic THEN [ret |-> "panic", val |-> {}]
    ELSE IF data.item = {} THEN [ret |-> "Decoding", val |-> {}]
    ELSE [ret |-> "Ok", val |-> data.item]

\* put storing the data only when the key is absent (MDB_NOOVERWRITE)
put_NoOverwrite(h, tx, kc, dc, key, data, ok) ==
    IF ~SameEnvIdent(h, tx) THEN [ret |-> "panic", work |-> tx.work]
    ELSE LET key_bytes == bytes_encode(kc, key)
             data_bytes == bytes_encode(dc, data) IN
    IF key_bytes = {} \/ data_bytes = {} THEN [ret |-> "Encoding", work |-> tx.work]
    ELSE IF ~ok THEN [ret |-> "Mdb", work |-> tx.work]
    ELSE [ret |-> "Ok",
          work |-> tx.work @@ ((CHOOSE k \in key_bytes : TRUE) :>
                               (CHOOSE v \in data_bytes : TRUE))]

\* PolyDatabase::put::<KC, DC>(txn, key, data), lines 1662-1686: the
\* result and the content the transaction sees afterwards. ok = FALSE is
\* an error of mdb_put (MDB_MAP_FULL, MDB_TXN_FULL, ...), which stores
\* nothing.
put(h, tx, kc, dc, key, data, ok) ==
    IF ~SameEnvIdent(h, tx) THEN [ret |-> "panic", work |-> tx.work]
    ELSE LET key_bytes == bytes_encode(kc, key)
             data_bytes == bytes_encode(dc, data) IN
    IF key_bytes = {} \/ data_bytes = {} THEN [ret |-> "Encoding", work |-> tx.work]
    ELSE IF ~ok THEN [ret |-> "Mdb", work |-> tx.work]
    ELSE [ret |-> "Ok",
          work |-> mdb_put(tx.work, CHOOSE k \in key_bytes : TRUE,
                           CHOOSE v \in data_bytes : TRUE)]

\* a call of get with the client's handle and transaction
Get(kc, dc, key) ==
    /\ txn.kind # "none"
    /\ db.present
    /\ LET r == get(db, txn, kc, dc, key) IN
       tblResult' = TblRet("get", r.ret, r.val, FALSE)
    /\ UNCHANGED <<envAddr, store, txn, db>>
    /\ UNCHANGED <<envVars, dbVars, seq, storeVars>>

\* a call of put with the client's handle and write transaction; had is a
\* ghost: the key bytes were stored before the call
Put(kc, dc, key, data, ok) ==
    /\ txn.kind = "rw"
    /\ db.present
    /\ LET r == put(db, txn, kc, dc, key, data, ok) IN
       /\ txn' = [txn EXCEPT !.work = r.work]
       /\ tblResult' = TblRet("put", r.ret, {},
                              bytes_encode(kc, key) \subseteq DOMAIN txn.work)
    /\ UNCHANGED <<envAddr, store, db>>
    /\ UNCHANGED <<envVars, dbVars, seq, storeVars>>

--------------------------------------------------------------------------
(***************************************************************************)
(* Deletion, counting, cursors and iteration of PolyDatabase. The keys of  *)
(* this part are byte strings of different lengths under ByteSlice, 0xFF   *)
(* bytes included; the data are strs.                                      *)
(***************************************************************************)

\* the keys the client stores, the keys it looks up and the keys of the
\* bounds of its ranges: <<98>> and <<97, 0>> are never stored
StoredKeys == {<<97>>, <<97, 255>>, <<255>>, <<255, 255>>}
SearchKeys == StoredKeys \cup {<<98>>, <<97, 0>>}
BoundKeys == {<<97>>, <<98>>, <<255>>}

\* the table without the keys ks
Without(tbl, ks) ==
    IF DOMAIN tbl \subseteq ks THEN EmptyTable
    ELSE [k \in DOMAIN tbl \ ks |-> tbl[k]]

\* mdb_del(txn, dbi, key, NULL): the entry of the key is removed; found is
\* FALSE for MDB_NOTFOUND, which removes nothing
mdb_del(tbl, k) == [found |-> k \in DOMAIN tbl, tbl |-> Without(tbl, {k})]

\* delete reporting true whether or not the key was stored
delete_AlwaysTrue(h, tx, kc, key, ok) ==
    IF ~SameEnvIdent(h, tx) THEN [ret |-> "panic", val |-> {}, work |-> tx.work]
    ELSE LET key_bytes == bytes_encode(kc, key) IN
    IF key_bytes = {} THEN [ret |-> "Encoding", val |-> {}, work |-> tx.work]
    ELSE IF ~ok THEN [ret |-> "Mdb", val |-> {}, work |-> tx.work]
    ELSE LET res == mdb_del(tx.work, CHOOSE k \in key_bytes : TRUE) IN
    [ret |-> "Ok", val |-> {TRUE}, work |-> res.tbl]

\* PolyDatabase::delete::<KC>(txn, key), lines 1793-1811: Ok(true) when
\* mdb_del succeeds, Ok(false) when it reports MDB_NOTFOUND. ok = FALSE is
\* another error of mdb_del, which removes nothing.
delete(h, tx, kc, key, ok) ==
    IF ~SameEnvIdent(h, tx) THEN [ret |-> "panic", val |-> {}, work |-> tx.work]
    ELSE LET key_bytes == bytes_encode(kc, key) IN
    IF key_bytes = {} THEN [ret |-> "Encoding", val |-> {}, work |-> tx.work]
    ELSE IF ~ok THEN [ret |-> "Mdb", val |-> {}, work |-> tx.work]
    ELSE LET res == mdb_del(tx.work, CHOOSE k \in key_bytes : TRUE) IN
    [ret |-> "Ok", val |-> {res.found}, work |-> res.tbl]

\* a call of delete with the client's handle and write transaction
Delete(kc, key, ok) ==
    /\ txn.kind = "rw"
    /\ db.present
    /\ LET r == delete(db, txn, kc, key, ok) IN
       /\ txn' = [txn EXCEPT !.work = r.work]
       /\ tblResult' = TblRet("delete", r.ret, r.val,
                              bytes_encode(kc, key) \subseteq DOMAIN txn.work)
    /\ UNCHANGED <<envAddr, store, db>>
    /\ UNCHANGED <<envVars, dbVars, seq, storeVars>>

\* the order of the keys: mdb_cmp of a database without a custom
\* comparator, the byte-lexicographic order, which is also the order of
\* Rust's [u8] (a proper prefix is smaller)
LexLess(a, b) ==
    LET common == IF Len(a) < Len(b) THEN Len(a) ELSE Len(b)
        differ == {i \in 1 .. common : a[i] # b[i]} IN
    IF differ = {} THEN Len(a) < Len(b)
    ELSE LET first == CHOOSE i \in differ : \A j \in differ : i <= j IN
         a[first] < b[first]

LexLessEq(a, b) == a = b \/ LexLess(a, b)

\* the keys of a B-tree in the order of its leaves
RECURSIVE SortedKeys(_)
SortedKeys(S) ==
    IF S = {} THEN <<>>
    ELSE LET least == CHOOSE k \in S : \A o \in S \ {k} : LexLess(k, o) IN
         <<least>> \o SortedKeys(S \ {least})

\* the i-th entry of the table: key and data bytes
Entry(tbl, i) ==
    LET ks == SortedKeys(DOMAIN tbl) IN [key |-> ks[i], data |-> tbl[ks[i]]]

\* RoCursor: a position over the sorted entries of the table the
\* transaction sees, 0 when the cursor is not positioned. A move returns
\* the new position and the entry there, {} for MDB_NOTFOUND.
Moved(tbl, i) == [pos |-> i, entry |-> {Entry(tbl, i)}]
NotMoved(i) == [pos |-> i, entry |-> {}]

\* RoCursor::move_on_first: mdb_cursor_get(MDB_FIRST)
move_on_first(tbl, pos) ==
    IF tbl = EmptyTable THEN NotMoved(0) ELSE Moved(tbl, 1)

\* RoCursor::move_on_last: mdb_cursor_get(MDB_LAST)
move_on_last(tbl, pos) ==
    IF tbl = EmptyTable THEN NotMoved(0)
    ELSE Moved(tbl, Cardinality(DOMAIN tbl))

\* RoCursor::move_on_key_greater_than_or_equal_to: mdb_cursor_get
\* (MDB_SET_RANGE), the first entry whose key is not smaller than the key;
\* when there is none the cursor is left not positioned
move_on_key_greater_than_or_equal_to(tbl, pos, key) ==
    LET ks == SortedKeys(DOMAIN tbl)
        at == {i \in 1 .. Len(ks) : LexLessEq(key, ks[i])} IN
    IF at = {} THEN NotMoved(0)
    ELSE Moved(tbl, CHOOSE i \in at : \A j \in at : i <= j)

\* RoCursor::move_on_next: mdb_cursor_get(MDB_NEXT); a cursor that is not
\* positioned moves on the first entry
move_on_next(tbl, pos) ==
    IF pos = 0 THEN move_on_first(tbl, pos)
    ELSE IF pos < Cardinality(DOMAIN tbl) THEN Moved(tbl, pos + 1)
    ELSE NotMoved(pos)

\* RoCursor::move_on_prev: mdb_cursor_get(MDB_PREV); a cursor that is not
\* positioned moves on the last entry
move_on_prev(tbl, pos) ==
    IF pos = 0 THEN move_on_last(tbl, pos)
    ELSE IF pos > 1 THEN Moved(tbl, pos - 1)
    ELSE NotMoved(pos)

\* while let Some(_) = cursor.move_on_next()? { count += 1 }, line 759
RECURSIVE CountNext(_, _)
CountNext(tbl, pos) ==
    LET next == move_on_next(tbl, pos) IN
    IF next.entry = {} THEN 0 ELSE 1 + CountNext(tbl, next.pos)

\* len that does not count the first entry
len_FromZero(h, tx) ==
    IF ~SameEnvIdent(h, tx) THEN [ret |-> "panic", val |-> {}]
    ELSE LET first == move_on_first(tx.work, 0) IN
    IF first.entry = {} THEN [ret |-> "Ok", val |-> {0}]
    ELSE [ret |-> "Ok", val |-> {CountNext(tx.work, first.pos)}]

\* PolyDatabase::len(txn), lines 748-764
len(h, tx) ==
    IF ~SameEnvIdent(h, tx) THEN [ret |-> "panic", val |-> {}]
    ELSE LET first == move_on_first(tx.work, 0) IN
    IF first.entry = {} THEN [ret |-> "Ok", val |-> {0}]
    ELSE [ret |-> "Ok", val |-> {1 + CountNext(tx.work, first.pos)}]

\* PolyDatabase::is_empty(txn), lines 806-814
is_empty(h, tx) ==
    IF ~SameEnvIdent(h, tx) THEN [ret |-> "panic", val |-> {}]
    ELSE LET first == move_on_first(tx.work, 0) IN
    IF first.entry # {} THEN [ret |-> "Ok", val |-> {FALSE}]
    ELSE [ret |-> "Ok", val |-> {TRUE}]

\* PolyDatabase::clear(txn), lines 1929-1933: mdb_drop(txn, dbi, 0) empties
\* the database. ok = FALSE is an error of mdb_drop, which removes nothing.
clear(h, tx, ok) ==
    IF ~SameEnvIdent(h, tx) THEN [ret |-> "panic", work |-> tx.work]
    ELSE IF ~ok THEN [ret |-> "Mdb", work |-> tx.work]
    ELSE [ret |-> "Ok", work |-> EmptyTable]

\* a call of len with the client's handle and transaction
LenCall ==
    /\ txn.kind # "none"
    /\ db.present
    /\ LET r == len(db, txn) IN tblResult' = TblRet("len", r.ret, r.val, FALSE)
    /\ UNCHANGED <<envAddr, store, txn, db>>
    /\ UNCHANGED <<envVars, dbVars, seq, storeVars>>

\* a call of is_empty with the client's handle and transaction
IsEmpty ==
    /\ txn.kind # "none"
    /\ db.present
    /\ LET r == is_empty(db, txn) IN
       tblResult' = TblRet("is_empty", r.ret, r.val, FALSE)
    /\ UNCHANGED <<envAddr, store, txn, db>>
    /\ UNCHANGED <<envVars, dbVars, seq, storeVars>>

\* a call of clear with the client's handle and write transaction; had is
\* a ghost: the database had entries before the call
Clear(ok) ==
    /\ txn.kind = "rw"
    /\ db.present
    /\ LET r == clear(db, txn, ok) IN
       /\ txn' = [txn EXCEPT !.work = r.work]
       /\ tblResult' = TblRet("clear", r.ret, {}, txn.work # EmptyTable)
    /\ UNCHANGED <<envAddr, store, db>>
    /\ UNCHANGED <<envVars, dbVars, seq, storeVars>>

\* the decoding of an entry a cursor returned, lines 364-372 (and the same
\* in the iterators): match (KC::bytes_decode(key), DC::bytes_decode(data))
\* { (Some(key), Some(data)) => Ok(Some((key, data))),
\*   (_, _) => Err(Error::Decoding) }
Decoded(kc, dc, e) ==
    LET key == bytes_decode(kc, e.key)
        data == bytes_decode(dc, e.data) IN
    IF key.panic \/ data.panic THEN [ret |-> "panic", val |-> {}]
    ELSE IF key.item # {} /\ data.item # {}
    THEN [ret |-> "Ok",
          val |-> {<<CHOOSE k \in key.item : TRUE, CHOOSE d \in data.item : TRUE>>}]
    ELSE [ret |-> "Decoding", val |-> {}]

\* the entries a cursor returns by move_on_next until it is exhausted
RECURSIVE NextAll(_, _)
NextAll(tbl, pos) ==
    LET next == move_on_next(tbl, pos) IN
    IF next.entry = {} THEN <<>>
    ELSE <<CHOOSE e \in next.entry : TRUE>> \o NextAll(tbl, next.pos)

\* the entries a cursor returns by move_on_prev until it is exhausted
RECURSIVE PrevAll(_, _)
PrevAll(tbl, pos) ==
    LET prev == move_on_prev(tbl, pos) IN
    IF prev.entry = {} THEN <<>>
    ELSE <<CHOOSE e \in prev.entry : TRUE>> \o PrevAll(tbl, prev.pos)

\* RoIter: move_on_first at the first call of next, move_on_next at the
\* following ones, until the cursor returns no entry
RoIter(tbl) ==
    LET first == move_on_first(tbl, 0) IN
    IF first.entry = {} THEN <<>>
    ELSE <<CHOOSE e \in first.entry : TRUE>> \o NextAll(tbl, first.pos)

\* RoRevIter: move_on_last at the first call of next, move_on_prev at the
\* following ones
RoRevIter(tbl) ==
    LET last == move_on_last(tbl, 0) IN
    IF last.entry = {} THEN <<>>
    ELSE <<CHOOSE e \in last.entry : TRUE>> \o PrevAll(tbl, last.pos)

\* the items an iterator yields for the entries of its cursor
Items(kc, dc, entries) ==
    [i \in 1 .. Len(entries) |-> Decoded(kc, dc, entries[i])]

\* an iterator that leaves out the first entry
iter_SkipsFirst(h, tx, kc, dc) ==
    IF ~SameEnvIdent(h, tx) THEN [ret |-> "panic", items |-> <<>>]
    ELSE [ret |-> "Ok", items |-> Items(kc, dc, NextAll(tx.work, 1))]

\* PolyDatabase::iter::<KC, DC>(txn), lines 854-858, and the items the
\* RoIter it returns yields
iter(h, tx, kc, dc) ==
    IF ~SameEnvIdent(h, tx) THEN [ret |-> "panic", items |-> <<>>]
    ELSE [ret |-> "Ok", items |-> Items(kc, dc, RoIter(tx.work))]

\* PolyDatabase::rev_iter::<KC, DC>(txn), lines 961-965, and the items the
\* RoRevIter it returns yields
rev_iter(h, tx, kc, dc) ==
    IF ~SameEnvIdent(h, tx) THEN [ret |-> "panic", items |-> <<>>]
    ELSE [ret |-> "Ok", items |-> Items(kc, dc, RoRevIter(tx.work))]

\* a call of iter with the client's handle and transaction, and the
\* collection of its items
Iter(kc, dc) ==
    /\ txn.kind # "none"
    /\ db.present
    /\ LET r == iter(db, txn, kc, dc) IN
       tblResult' = TblRet("iter", r.ret, {r.items}, FALSE)
    /\ UNCHANGED <<envAddr, store, txn, db>>
    /\ UNCHANGED <<envVars, dbVars, seq, storeVars>>

\* a call of rev_iter with the client's handle and transaction, and the
\* collection of its items
RevIter(kc, dc) ==
    /\ txn.kind # "none"
    /\ db.present
    /\ LET r == rev_iter(db, txn, kc, dc) IN
       tblResult' = TblRet("rev_iter", r.ret, {r.items}, FALSE)
    /\ UNCHANGED <<envAddr, store, txn, db>>
    /\ UNCHANGED <<envVars, dbVars, seq, storeVars>>

\* std::ops::Bound of a typed key or of its bytes
Unbounded == [kind |-> "Unbounded", key |-> <<>>]
Included(k) == [kind |-> "Included", key |-> k]
Excluded(k) == [kind |-> "Excluded", key |-> k]
Bounds == {Unbounded} \cup {Included(k) : k \in BoundKeys}
                      \cup {Excluded(k) : k \in BoundKeys}

\* RoRange, the boundary test of the end bound on the key of an entry
WithinEnd(key, end_bound) ==
    CASE end_bound.kind = "Included" -> LexLessEq(key, end_bound.key)
      [] end_bound.kind = "Excluded" -> LexLess(key, end_bound.key)
      [] OTHER -> TRUE

\* RoRange, the move on the start of the range: the first entry for an
\* unbounded start, the first entry not smaller than the bound for an
\* included one, and the same, stepping over an entry equal to the bound,
\* for an excluded one
move_on_range_start(tbl, start_bound) ==
    IF start_bound.kind = "Unbounded" THEN move_on_first(tbl, 0)
    ELSE LET at == move_on_key_greater_than_or_equal_to(tbl, 0, start_bound.key) IN
    IF /\ start_bound.kind = "Excluded"
       /\ \E e \in at.entry : e.key = start_bound.key
    THEN move_on_next(tbl, at.pos)
    ELSE at

\* RoRange, the following calls of next: the entries by move_on_next as
\* long as they satisfy the end bound
RECURSIVE NextWithin(_, _, _)
NextWithin(tbl, pos, end_bound) ==
    LET next == move_on_next(tbl, pos) IN
    IF next.entry = {} \/ \E e \in next.entry : ~WithinEnd(e.key, end_bound)
    THEN <<>>
    ELSE <<CHOOSE e \in next.entry : TRUE>> \o NextWithin(tbl, next.pos, end_bound)

\* RoRange: the entries it returns until the cursor is exhausted or an
\* entry fails the end bound
RoRange(tbl, start_bound, end_bound) ==
    LET start == move_on_range_start(tbl, start_bound) IN
    IF start.entry = {} \/ \E e \in start.entry : ~WithinEnd(e.key, end_bound)
    THEN <<>>
    ELSE <<CHOOSE e \in start.entry : TRUE>>
            \o NextWithin(tbl, start.pos, end_bound)

\* the bound of the bytes of a bound of a typed key, lines 1080-1102: {}
\* when the key cannot be encoded
EncodedBound(kc, bound) ==
    IF bound.kind = "Unbounded" THEN {Unbounded}
    ELSE {[kind |-> bound.kind, key |-> bytes] : bytes \in bytes_encode(kc, bound.key)}

\* range turning an excluded end bound into an included one
range_EndIncluded(h, tx, kc, dc, start, end) ==
    IF ~SameEnvIdent(h, tx) THEN [ret |-> "panic", items |-> <<>>]
    ELSE LET start_bound == EncodedBound(kc, start)
             end_bound == EncodedBound(kc, end) IN
    IF start_bound = {} \/ end_bound = {} THEN [ret |-> "Encoding", items |-> <<>>]
    ELSE [ret |-> "Ok",
          items |-> Items(kc, dc, RoRange(tx.work,
                       CHOOSE b \in start_bound : TRUE,
                       LET b == CHOOSE b \in end_bound : TRUE IN
                       IF b.kind = "Excluded" THEN Included(b.key) ELSE b))]

\* PolyDatabase::range::<KC, DC, R>(txn, range), lines 1028-1105, and the
\* items the RoRange it returns yields
range(h, tx, kc, dc, start, end) ==
    IF ~SameEnvIdent(h, tx) THEN [ret |-> "panic", items |-> <<>>]
    ELSE LET start_bound == EncodedBound(kc, start)
             end_bound == EncodedBound(kc, end) IN
    IF start_bound = {} \/ end_bound = {} THEN [ret |-> "Encoding", items |-> <<>>]
    ELSE [ret |-> "Ok",
          items |-> Items(kc, dc, RoRange(tx.work,
                       CHOOSE b \in start_bound : TRUE,
                       CHOOSE b \in end_bound : TRUE))]

\* a call of range with the client's handle and transaction, and the
\* collection of its items; the result keeps the bounds of the call
Range(kc, dc, start, end) ==
    /\ txn.kind # "none"
    /\ db.present
    /\ LET r == range(db, txn, kc, dc, start, end) IN
       tblResult' = TblRet("range", r.ret, {<<start, end, r.items>>}, FALSE)
    /\ UNCHANGED <<envAddr, store, txn, db>>
    /\ UNCHANGED <<envVars, dbVars, seq, storeVars>>

\* the loop of delete_range, lines 1876-1882, with the cursor of the
\* RwRange on the entry at pos, which next has just yielded: del_current
\* (mdb_cursor_del) removes it, and the move_on_next of the following
\* next returns the entry that took its place, which is deleted in turn
\* when it satisfies the end bound
RECURSIVE DelCurrentLoop(_, _, _, _)
DelCurrentLoop(tbl, pos, end_bound, count) ==
    LET rest == Without(tbl, {Entry(tbl, pos).key})
        next == IF pos <= Cardinality(DOMAIN rest) THEN Moved(rest, pos)
                ELSE NotMoved(pos) IN
    IF next.entry = {} \/ \E e \in next.entry : ~WithinEnd(e.key, end_bound)
    THEN [work |-> rest, count |-> count + 1]
    ELSE DelCurrentLoop(rest, pos, end_bound, count + 1)

\* RwRange and the loop of delete_range over it: the content left and the
\* number of the entries deleted
RwRangeDelete(tbl, start_bound, end_bound) ==
    LET start == move_on_range_start(tbl, start_bound) IN
    IF start.entry = {} \/ \E e \in start.entry : ~WithinEnd(e.key, end_bound)
    THEN [work |-> tbl, count |-> 0]
    ELSE DelCurrentLoop(tbl, start.pos, end_bound, 0)

\* delete_range deleting from the start of the range to the last entry
delete_range_ThroughEnd(h, tx, kc, start, end) ==
    IF ~SameEnvIdent(h, tx) THEN [ret |-> "panic", val |-> {}, work |-> tx.work]
    ELSE LET start_bound == EncodedBound(kc, start)
             end_bound == EncodedBound(kc, end) IN
    IF start_bound = {} \/ end_bound = {}
    THEN [ret |-> "Encoding", val |-> {}, work |-> tx.work]
    ELSE LET r == RwRangeDelete(tx.work, CHOOSE b \in start_bound : TRUE,
                                Unbounded) IN
         [ret |-> "Ok", val |-> {r.count}, work |-> r.work]

\* PolyDatabase::delete_range::<KC, R>(txn, range), lines 1862-1885, over
\* the RwRange of range_mut, lines 1162-1198
delete_range(h, tx, kc, start, end) ==
    IF ~SameEnvIdent(h, tx) THEN [ret |-> "panic", val |-> {}, work |-> tx.work]
    ELSE LET start_bound == EncodedBound(kc, start)
             end_bound == EncodedBound(kc, end) IN
    IF start_bound = {} \/ end_bound = {}
    THEN [ret |-> "Encoding", val |-> {}, work |-> tx.work]
    ELSE LET r == RwRangeDelete(tx.work, CHOOSE b \in start_bound : TRUE,
                                CHOOSE b \in end_bound : TRUE) IN
         [ret |-> "Ok", val |-> {r.count}, work |-> r.work]

\* a call of delete_range with the client's handle and write transaction;
\* the result keeps the bounds of the call and had is a ghost: the content
\* before the call
DeleteRange(kc, start, end) ==
    /\ txn.kind = "rw"
    /\ db.present
    /\ LET r == delete_range(db, txn, kc, start, end) IN
       /\ txn' = [txn EXCEPT !.work = r.work]
       /\ tblResult' = TblRet("delete_range", r.ret,
                              {<<start, end, n>> : n \in r.val}, txn.work)
    /\ UNCHANGED <<envAddr, store, db>>
    /\ UNCHANGED <<envVars, dbVars, seq, storeVars>>

\* the prefixes the client iterates: stored keys, a stored key that has no
\* extension, a key never stored, and prefixes of 0xFF bytes only
Prefixes == {<<97>>, <<97, 255>>, <<98>>, <<255>>, <<255, 255>>}

\* the prefix incremented lexicographically: the last byte plus one, with
\* the carry of a 0xFF byte into the bytes before it; {} for a prefix of
\* 0xFF bytes only, which has no upper bound
RECURSIVE Incremented(_)
Incremented(prefix) ==
    IF prefix = <<>> THEN {}
    ELSE LET n == Len(prefix) IN
    IF prefix[n] = 255 THEN Incremented(SubSeq(prefix, 1, n - 1))
    ELSE {[prefix EXCEPT ![n] = prefix[n] + 1]}

\* RoPrefix: the range from the prefix, included, to the incremented
\* prefix, excluded, or to the last entry when there is none
RoPrefix(tbl, prefix) ==
    RoRange(tbl, Included(prefix),
            IF Incremented(prefix) = {} THEN Unbounded
            ELSE Excluded(CHOOSE end \in Incremented(prefix) : TRUE))

\* prefix_iter from the prefix to the last entry
prefix_iter_ToLast(h, tx, kc, dc, prefix) ==
    IF ~SameEnvIdent(h, tx) THEN [ret |-> "panic", items |-> <<>>]
    ELSE LET prefix_bytes == bytes_encode(kc, prefix) IN
    IF prefix_bytes = {} THEN [ret |-> "Encoding", items |-> <<>>]
    ELSE [ret |-> "Ok",
          items |-> Items(kc, dc, RoRange(tx.work,
                       Included(CHOOSE p \in prefix_bytes : TRUE), Unbounded))]

\* PolyDatabase::prefix_iter::<KC, DC>(txn, prefix), lines 1373-1429, and
\* the items the RoPrefix it returns yields
prefix_iter(h, tx, kc, dc, prefix) ==
    IF ~SameEnvIdent(h, tx) THEN [ret |-> "panic", items |-> <<>>]
    ELSE LET prefix_bytes == bytes_encode(kc, prefix) IN
    IF prefix_bytes = {} THEN [ret |-> "Encoding", items |-> <<>>]
    ELSE [ret |-> "Ok",
          items |-> Items(kc, dc, RoPrefix(tx.work, CHOOSE p \in prefix_bytes : TRUE))]

\* a call of prefix_iter with the client's handle and transaction, and the
\* collection of its items; the result keeps the prefix of the call
PrefixIter(kc, dc, prefix) ==
    /\ txn.kind # "none"
    /\ db.present
    /\ LET r == prefix_iter(db, txn, kc, dc, prefix) IN
       tblResult' = TblRet("prefix_iter", r.ret, {<<prefix, r.items>>}, FALSE)
    /\ UNCHANGED <<envAddr, store, txn, db>>
    /\ UNCHANGED <<envVars, dbVars, seq, storeVars>>

\* the result of a lookup: the decoded entry the cursor ended on, Ok(None)
\* when it ended on none, lines 364-374
Lookup(kc, dc, moved) ==
    IF moved.entry = {} THEN [ret |-> "Ok", val |-> {}]
    ELSE Decoded(kc, dc, CHOOSE e \in moved.entry : TRUE)

\* get_lower_than giving up when no key is greater than or equal to the key
get_lower_than_NoneAfterLast(h, tx, kc, dc, key) ==
    IF ~SameEnvIdent(h, tx) THEN [ret |-> "panic", val |-> {}]
    ELSE LET key_bytes == bytes_encode(kc, key) IN
    IF key_bytes = {} THEN [ret |-> "Encoding", val |-> {}]
    ELSE LET at == move_on_key_greater_than_or_equal_to(
                      tx.work, 0, CHOOSE k \in key_bytes : TRUE) IN
    IF at.entry = {} THEN [ret |-> "Ok", val |-> {}]
    ELSE Lookup(kc, dc, move_on_prev(tx.work, at.pos))

\* PolyDatabase::get_lower_than::<KC, DC>(txn, key), lines 307-375: the
\* cursor is moved on the first key greater than or equal to the key,
\* whatever that finds, and then on the previous entry
get_lower_than(h, tx, kc, dc, key) ==
    IF ~SameEnvIdent(h, tx) THEN [ret |-> "panic", val |-> {}]
    ELSE LET key_bytes == bytes_encode(kc, key) IN
    IF key_bytes = {} THEN [ret |-> "Encoding", val |-> {}]
    ELSE LET at == move_on_key_greater_than_or_equal_to(
                      tx.work, 0, CHOOSE k \in key_bytes : TRUE) IN
    Lookup(kc, dc, move_on_prev(tx.work, at.pos))

\* get_lower_than_or_equal_to taking the previous entry also when the
\* cursor is on the key
get_lower_than_or_equal_to_AlwaysPrev(h, tx, kc, dc, key) ==
    get_lower_than(h, tx, kc, dc, key)

\* PolyDatabase::get_lower_than_or_equal_to::<KC, DC>(txn, key), lines
\* 377-449: the entry the cursor is moved on when its key is the key, the
\* previous entry otherwise
get_lower_than_or_equal_to(h, tx, kc, dc, key) ==
    IF ~SameEnvIdent(h, tx) THEN [ret |-> "panic", val |-> {}]
    ELSE LET key_bytes == bytes_encode(kc, key) IN
    IF key_bytes = {} THEN [ret |-> "Encoding", val |-> {}]
    ELSE LET at == move_on_key_greater_than_or_equal_to(
                      tx.work, 0, CHOOSE k \in key_bytes : TRUE) IN
    IF \E e \in at.entry : {e.key} = key_bytes THEN Lookup(kc, dc, at)
    ELSE Lookup(kc, dc, move_on_prev(tx.work, at.pos))

\* PolyDatabase::get_greater_than_or_equal_to::<KC, DC>(txn, key), lines
\* 524-590: the entry the cursor is moved on
get_greater_than_or_equal_to(h, tx, kc, dc, key) ==
    IF ~SameEnvIdent(h, tx) THEN [ret |-> "panic", val |-> {}]
    ELSE LET key_bytes == bytes_encode(kc, key) IN
    IF key_bytes = {} THEN [ret |-> "Encoding", val |-> {}]
    ELSE Lookup(kc, dc, move_on_key_greater_than_or_equal_to(
                           tx.work, 0, CHOOSE k \in key_bytes : TRUE))

\* get_greater_than returning the entry of the key when it is stored
get_greater_than_NoSkip(h, tx, kc, dc, key) ==
    get_greater_than_or_equal_to(h, tx, kc, dc, key)

\* PolyDatabase::get_greater_than::<KC, DC>(txn, key), lines 451-522: the
\* entry the cursor is moved on when its key is greater than the key, the
\* next entry when it is not, none when the cursor is moved on none
get_greater_than(h, tx, kc, dc, key) ==
    IF ~SameEnvIdent(h, tx) THEN [ret |-> "panic", val |-> {}]
    ELSE LET key_bytes == bytes_encode(kc, key) IN
    IF key_bytes = {} THEN [ret |-> "Encoding", val |-> {}]
    ELSE LET at == move_on_key_greater_than_or_equal_to(
                      tx.work, 0, CHOOSE k \in key_bytes : TRUE) IN
    IF at.entry = {} THEN [ret |-> "Ok", val |-> {}]
    ELSE IF \E e \in at.entry : \E k \in key_bytes : LexLess(k, e.key)
    THEN Lookup(kc, dc, at)
    ELSE Lookup(kc, dc, move_on_next(tx.work, at.pos))

\* a call of get_lower_than with the client's handle and transaction;
\* the result keeps the key of the call
GetLowerThan(kc, dc, key) ==
    /\ txn.kind # "none"
    /\ db.present
    /\ LET r == get_lower_than(db, txn, kc, dc, key) IN
       tblResult' = TblRet("get_lower_than", r.ret, {<<key, r.val>>}, FALSE)
    /\ UNCHANGED <<envAddr, store, txn, db>>
    /\ UNCHANGED <<envVars, dbVars, seq, storeVars>>

\* a call of get_lower_than_or_equal_to with the client's handle and transaction;
\* the result keeps the key of the call
GetLowerThanOrEqualTo(kc, dc, key) ==
    /\ txn.kind # "none"
    /\ db.present
    /\ LET r == get_lower_than_or_equal_to(db, txn, kc, dc, key) IN
       tblResult' = TblRet("get_lower_than_or_equal_to", r.ret, {<<key, r.val>>}, FALSE)
    /\ UNCHANGED <<envAddr, store, txn, db>>
    /\ UNCHANGED <<envVars, dbVars, seq, storeVars>>

\* a call of get_greater_than with the client's handle and transaction;
\* the result keeps the key of the call
GetGreaterThan(kc, dc, key) ==
    /\ txn.kind # "none"
    /\ db.present
    /\ LET r == get_greater_than(db, txn, kc, dc, key) IN
       tblResult' = TblRet("get_greater_than", r.ret, {<<key, r.val>>}, FALSE)
    /\ UNCHANGED <<envAddr, store, txn, db>>
    /\ UNCHANGED <<envVars, dbVars, seq, storeVars>>

\* a call of get_greater_than_or_equal_to with the client's handle and transaction;
\* the result keeps the key of the call
GetGreaterThanOrEqualTo(kc, dc, key) ==
    /\ txn.kind # "none"
    /\ db.present
    /\ LET r == get_greater_than_or_equal_to(db, txn, kc, dc, key) IN
       tblResult' = TblRet("get_greater_than_or_equal_to", r.ret, {<<key, r.val>>}, FALSE)
    /\ UNCHANGED <<envAddr, store, txn, db>>
    /\ UNCHANGED <<envVars, dbVars, seq, storeVars>>

--------------------------------------------------------------------------
(***************************************************************************)
(* The sequence of a database (MDBX): sequence and increase_sequence       *)
(***************************************************************************)

\* the greatest value of the counter, u64::MAX in the code, kept small:
\* the counter is an integer modulo MaxSequence + 1
MaxSequence == 7

\* mdbx_dbi_sequence(txn, dbi, &value, increment): the value is the
\* counter before the call; an increment that overflows the counter is
\* not made and is reported as MDBX_RESULT_TRUE
mdbx_dbi_sequence(current, increment) ==
    LET new == (current + increment) % (MaxSequence + 1) IN
    IF increment > 0 /\ new < increment
    THEN [rc |-> "MDBX_RESULT_TRUE", value |-> current, seq |-> current]
    ELSE [rc |-> "MDBX_SUCCESS", value |-> current, seq |-> new]

\* PolyDatabase::sequence(txn), lines 116-178, with the counter the
\* transaction sees
sequence(h, tx, current) ==
    IF ~SameEnvIdent(h, tx) THEN [ret |-> "panic", val |-> {}]
    ELSE [ret |-> "Ok", val |-> {mdbx_dbi_sequence(current, 0).value}]

\* increase_sequence returning the counter after the increase
increase_sequence_ReturnsNew(h, tx, current, increment) ==
    IF ~SameEnvIdent(h, tx) THEN [ret |-> "panic", val |-> {}, seq |-> current]
    ELSE LET r == mdbx_dbi_sequence(current, increment) IN
    IF r.rc = "MDBX_SUCCESS" THEN [ret |-> "Ok", val |-> {r.seq}, seq |-> r.seq]
    ELSE [ret |-> "Ok", val |-> {}, seq |-> r.seq]

\* PolyDatabase::increase_sequence(txn, increment), lines 180-237:
\* Ok(Some(value)) when the engine succeeds, Ok(None) for the code the
\* match arm of line 234 names MDBX_RESULT_TRUE
increase_sequence(h, tx, current, increment) ==
    IF ~SameEnvIdent(h, tx) THEN [ret |-> "panic", val |-> {}, seq |-> current]
    ELSE LET r == mdbx_dbi_sequence(current, increment) IN
    IF r.rc = "MDBX_SUCCESS" THEN [ret |-> "Ok", val |-> {r.value}, seq |-> r.seq]
    ELSE IF r.rc = "MDBX_RESULT_TRUE" THEN [ret |-> "Ok", val |-> {}, seq |-> r.seq]
    ELSE [ret |-> "Mdb", val |-> {}, seq |-> r.seq]

\* a call of sequence with the client's handle and transaction
Sequence ==
    /\ txn.kind # "none"
    /\ db.present
    /\ LET r == sequence(db, txn, seq.work) IN
       tblResult' = TblRet("sequence", r.ret, r.val, FALSE)
    /\ UNCHANGED <<envAddr, store, txn, db>>
    /\ UNCHANGED <<envVars, dbVars, seq, storeVars>>

\* a call of increase_sequence with the client's handle and write
\* transaction; had is a ghost: the counter before the call and the
\* increment
IncreaseSequence(increment) ==
    /\ txn.kind = "rw"
    /\ db.present
    /\ LET r == increase_sequence(db, txn, seq.work, increment) IN
       /\ seq' = [seq EXCEPT !.work = r.seq]
       /\ tblResult' = TblRet("increase_sequence", r.ret, r.val,
                              <<seq.work, increment>>)
    /\ UNCHANGED <<envAddr, store, txn, db>>
    /\ UNCHANGED <<envVars, dbVars, storeVars>>

\* Env::read_txn on another thread while the client's transaction may be
\* active, line 538: the read transaction sees the counter that is
\* committed when it begins
OtherReadTxn(e) ==
    /\ envAddr[e] # "null"
    /\ ~seq.reader.open
    /\ seq' = [seq EXCEPT !.reader = [open |-> TRUE, snap |-> seq.store[e],
                                      expect |-> seq.old, got |-> {}]]
    /\ UNCHANGED <<envAddr, store, txn, db, tblResult>>
    /\ UNCHANGED <<envVars, dbVars, storeVars>>

\* a call of sequence with the handle, which is Copy, and the read
\* transaction of the other thread
OtherSequence(e) ==
    /\ seq.reader.open
    /\ db.present
    /\ LET r == sequence(db, Txn("ro", e, EmptyTable), seq.reader.snap) IN
       /\ r.ret = "Ok"
       /\ seq' = [seq EXCEPT !.reader.got = r.val]
    /\ UNCHANGED <<envAddr, store, txn, db, tblResult>>
    /\ UNCHANGED <<envVars, dbVars, storeVars>>

\* the read transaction of the other thread is dropped
OtherEnd ==
    /\ seq.reader.open
    /\ seq' = [seq EXCEPT !.reader = NoReader]
    /\ UNCHANGED <<envAddr, store, txn, db, tblResult>>
    /\ UNCHANGED <<envVars, dbVars, storeVars>>

--------------------------------------------------------------------------
(***************************************************************************)
(* The Store and Table traits (store/mod.rs) and their implementations:    *)
(* Env with PolyDatabase (store/mdb.rs), TransactionDB (store/rck.rs) and  *)
(* DBWithThreadMode (store/rck/raw.rs), both with a RockTable              *)
(***************************************************************************)

Backends == {"Env", "TransactionDB", "DBType"}

\* the name of the column family every database of the LSM engine has;
\* Store::table(name) creates the column family of the name or, when it
\* already exists, returns its handle (rck.rs 23-33, raw.rs 24-34)
DefaultCf == "default"
TableNames == {DefaultCf, "t1", "t2"}

\* the keys and data of the writer of StoreSpec, as bytes
WriterKeys == {<<97>>, <<98>>}
WriterData == {<<1>>, <<2>>}

EmptyTables == [t \in TableNames |-> EmptyTable]

\* a transaction of the store: work is the content a write transaction
\* has written to, snap the content that was committed when the
\* transaction began, got what the last get through it returned
NoStoreTxn == [open |-> FALSE, work |-> EmptyTables, snap |-> EmptyTables,
               got |-> {}]

\* with_wtx: wrote is a ghost, fun has written; base is a ghost, the
\* content that was committed when the call began; commit is a ghost,
\* commit was called
NoStResult == [op |-> "none", ret |-> "none", wrote |-> FALSE,
               base |-> EmptyTables, commit |-> FALSE]

\* paged is not running: pc is the position of the loop; same is a ghost,
\* the number of invocations of fun in a row that left the value as it
\* was, and calls a ghost, the number of invocations
NoPage == [pc |-> "idle", old |-> 0, cur |-> 0, ret |-> "none", same |-> 0,
           calls |-> 0]

InitStore ==
    /\ backend = "none"
    /\ tables = EmptyTables
    /\ wtx = NoStoreTxn
    /\ rtx = NoStoreTxn
    /\ stResult = NoStResult
    /\ page = NoPage

\* the client opens a store of one of the implementations and its tables
\* (Store::table, mdb.rs 15-21, rck.rs 23-33, raw.rs 24-34)
StoreOpen(b) ==
    /\ backend = "none"
    /\ backend' = b
    /\ UNCHANGED <<tables, wtx, rtx, stResult>>
    /\ UNCHANGED <<envVars, dbVars, tblVars, page>>

\* what a get through a read transaction reads. Env: Env::read_txn, the
\* snapshot of the engine. TransactionDB: self.transaction() without a
\* snapshot and get_pinned_cf_opt with ReadOptions::default(), the content
\* committed at the moment of the read. DBType: RawTxn { db: self } and
\* txn.db.get_pinned_cf_opt, the content of the database itself.
Seen(b, tx) == IF b = "Env" THEN tx.snap ELSE tables

\* Store::rtx, mdb.rs 23-25, rck.rs 35-37, raw.rs 36-38
Rtx ==
    /\ backend # "none"
    /\ ~rtx.open
    /\ rtx' = [open |-> TRUE, work |-> EmptyTables, snap |-> tables, got |-> {}]
    /\ UNCHANGED <<backend, tables, wtx, stResult>>
    /\ UNCHANGED <<envVars, dbVars, tblVars, page>>

\* Table::get::<ByteSlice, ByteSlice>(rtx, key), rck.rs 110-126,
\* raw.rs 111-127, mdb.rs 49-59
RtxGet(t, key) ==
    /\ rtx.open
    /\ rtx' = [rtx EXCEPT !.got = {<<t, key, mdb_get(Seen(backend, rtx)[t], key)>>}]
    /\ UNCHANGED <<backend, tables, wtx, stResult>>
    /\ UNCHANGED <<envVars, dbVars, tblVars, page>>

\* the read transaction is committed or dropped
RtxEnd ==
    /\ rtx.open
    /\ rtx' = NoStoreTxn
    /\ UNCHANGED <<backend, tables, wtx, stResult>>
    /\ UNCHANGED <<envVars, dbVars, tblVars, page>>

\* Store::with_wtx(fun), store/mod.rs 59-68: let mut wtx = self.wtx()?
\* (mdb.rs 27-29, rck.rs 39-41, raw.rs 40-42), then fun runs
WithWtx ==
    /\ backend # "none"
    /\ ~wtx.open
    /\ wtx' = [open |-> TRUE, work |-> tables, snap |-> tables, got |-> {}]
    /\ stResult' = [NoStResult EXCEPT !.op = "with_wtx", !.ret = "running",
                                      !.base = tables]
    /\ UNCHANGED <<backend, tables, rtx>>
    /\ UNCHANGED <<envVars, dbVars, tblVars, page>>

\* a write of fun through the write transaction. Env: PolyDatabase::put
\* with the RwTxn; TransactionDB: txn.tx.tx.put_cf, a write of the
\* transaction; DBType: txn.rtx.db.put_cf, a write of the database itself.
Written(b, t, tbl) ==
    IF b = "DBType"
    THEN [work |-> [wtx.work EXCEPT ![t] = tbl], tables |-> [tables EXCEPT ![t] = tbl]]
    ELSE [work |-> [wtx.work EXCEPT ![t] = tbl], tables |-> tables]

\* Table::put::<ByteSlice, ByteSlice>(wtx, key, data) called by fun,
\* mdb.rs 91-102, rck.rs 212-227, raw.rs 213-228. What was read through
\* the transaction borrows it and is gone.
WtxPut(t, key, data) ==
    /\ wtx.open
    /\ LET w == Written(backend, t, mdb_put(wtx.work[t], key, data)) IN
       /\ wtx' = [wtx EXCEPT !.work = w.work, !.got = {}]
       /\ tables' = w.tables
    /\ stResult' = [stResult EXCEPT !.wrote = TRUE]
    /\ UNCHANGED <<backend, rtx>>
    /\ UNCHANGED <<envVars, dbVars, tblVars, page>>

\* Transaction::commit of the write transaction, mdb.rs 38-42,
\* rck.rs 56-60, raw.rs 57-61 (Ok(()) and nothing else)
commit(b, tx) == IF b = "DBType" THEN tables ELSE tx.work

\* the rest of with_wtx: let out = fun(&mut wtx)?; wtx.commit()?; Ok(out).
\* ok: fun returns Ok; cok: commit returns Ok. The result is Ok, the error
\* of fun (Err) or the error of commit (CommitErr). A write transaction
\* that is dropped is aborted by Env and rolled back by TransactionDB; the
\* drop of a WRawTxn does nothing.
with_wtx(b, tx, ok, cok) ==
    IF ~ok THEN [ret |-> "Err", tables |-> tables, commit |-> FALSE]
    ELSE IF cok THEN [ret |-> "Ok", tables |-> commit(b, tx), commit |-> TRUE]
    ELSE [ret |-> "CommitErr", tables |-> tables, commit |-> TRUE]

\* fun returns and with_wtx with it
WithWtxReturn(ok, cok) ==
    /\ wtx.open
    /\ cok \/ backend # "DBType"
    /\ LET r == with_wtx(backend, wtx, ok, cok) IN
       /\ tables' = r.tables
       /\ stResult' = [stResult EXCEPT !.ret = r.ret, !.commit = r.commit]
    /\ wtx' = NoStoreTxn
    /\ UNCHANGED <<backend, rtx>>
    /\ UNCHANGED <<envVars, dbVars, tblVars, page>>

\* the keys of the client of LsmSpec, of different lengths and with keys
\* that extend another key, and the keys of the bounds of its ranges
LsmKeys == {<<97>>, <<97, 0>>, <<97, 255>>, <<98>>}
LsmBoundKeys == {<<97>>, <<98>>}
LsmBounds == {Unbounded} \cup {Included(k) : k \in LsmBoundKeys}
                         \cup {Excluded(k) : k \in LsmBoundKeys}

\* iter::advance_key: the last byte of the key incremented by one; a key
\* without a last byte below 0xFF gets a 0x00 byte appended
advance_key(bytes) ==
    IF bytes = <<>> \/ bytes[Len(bytes)] = 255 THEN Append(bytes, 0)
    ELSE [bytes EXCEPT ![Len(bytes)] = @ + 1]

\* iter::retreat_key: the last byte of the key decremented by one, a last
\* byte of 0x00 removed; {} is the panic for an empty key
retreat_key(bytes) ==
    IF bytes = <<>> THEN {}
    ELSE IF bytes[Len(bytes)] = 0 THEN {SubSeq(bytes, 1, Len(bytes) - 1)}
    ELSE {[bytes EXCEPT ![Len(bytes)] = @ - 1]}

\* the entries of a column family in the order of the engine
SortedEntries(tbl) ==
    LET ks == SortedKeys(DOMAIN tbl) IN
    [i \in 1 .. Len(ks) |-> [key |-> ks[i], data |-> tbl[ks[i]]]]

Reversed(s) == [i \in 1 .. Len(s) |-> s[Len(s) + 1 - i]]

\* IteratorMode::Start, End and From(key, direction)
Start == [kind |-> "Start", key |-> <<>>]
End == [kind |-> "End", key |-> <<>>]
From(key, direction) == [kind |-> direction, key |-> key]

\* iterator_cf_opt(cf, opt, mode): the entries the iterator yields. lower
\* is set_iterate_lower_bound (inclusive), upper set_iterate_upper_bound
\* (exclusive), {} when not set. From(key, Forward) seeks the first key
\* not smaller than key, From(key, Reverse) the last key not greater.
iterator_cf_opt(tbl, lower, upper, mode) ==
    LET Yielded(e) ==
           /\ \A l \in lower : LexLessEq(l, e.key)
           /\ \A u \in upper : LexLess(e.key, u)
           /\ mode.kind = "Forward" => LexLessEq(mode.key, e.key)
           /\ mode.kind = "Reverse" => LexLessEq(e.key, mode.key)
        sel == SelectSeq(SortedEntries(tbl), Yielded) IN
    IF mode.kind \in {"End", "Reverse"} THEN Reversed(sel) ELSE sel

\* Iter::next, rck.rs 89-102: the key and the data of each entry decoded
\* and unwrapped
RockItems(kc, dc, entries) ==
    [i \in 1 .. Len(entries) |->
        LET d == Decoded(kc, dc, entries[i]) IN
        IF d.ret = "Ok" THEN d ELSE [ret |-> "panic", val |-> {}]]

\* RockTable::range(txn, range), rck.rs 128-167 and raw.rs 129-168, on
\* the content the transaction reads
RockTable_range(tbl, kc, dc, start, end) ==
    LET s == EncodedBound(kc, start)
        e == EncodedBound(kc, end) IN
    IF s = {} \/ e = {} THEN [ret |-> "panic", items |-> <<>>]
    ELSE LET sb == CHOOSE b \in s : TRUE
             eb == CHOOSE b \in e : TRUE
             upper == CASE eb.kind = "Included" -> {advance_key(eb.key)}
                        [] eb.kind = "Excluded" -> {eb.key}
                        [] OTHER -> {}
             mode == CASE sb.kind = "Included" -> From(sb.key, "Forward")
                       [] sb.kind = "Excluded" -> From(advance_key(sb.key), "Forward")
                       [] OTHER -> Start IN
    [ret |-> "Ok", items |-> RockItems(kc, dc, iterator_cf_opt(tbl, {}, upper, mode))]

\* RockTable::rev_range(txn, range), rck.rs 169-206 and raw.rs 170-207
RockTable_rev_range(tbl, kc, dc, start, end) ==
    LET s == EncodedBound(kc, start)
        e == EncodedBound(kc, end) IN
    IF s = {} \/ e = {} THEN [ret |-> "panic", items |-> <<>>]
    ELSE LET sb == CHOOSE b \in s : TRUE
             eb == CHOOSE b \in e : TRUE IN
    IF sb.kind = "Excluded" THEN [ret |-> "panic", items |-> <<>>]
    ELSE IF eb.kind = "Excluded" /\ retreat_key(eb.key) = {}
    THEN [ret |-> "panic", items |-> <<>>]
    ELSE LET lower == IF sb.kind = "Included" THEN {sb.key} ELSE {}
             mode == CASE eb.kind = "Included" -> From(eb.key, "Reverse")
                       [] eb.kind = "Excluded" ->
                             From(CHOOSE k \in retreat_key(eb.key) : TRUE, "Reverse")
                       [] OTHER -> End IN
    [ret |-> "Ok", items |-> RockItems(kc, dc, iterator_cf_opt(tbl, lower, {}, mode))]

\* a call of range with the write transaction, which derefs to a read
\* transaction
LsmRange(t, start, end) ==
    /\ wtx.open
    /\ backend \in {"TransactionDB", "DBType"}
    /\ LET r == RockTable_range(wtx.work[t], "ByteSlice", "ByteSlice", start, end) IN
       wtx' = [wtx EXCEPT !.got = {[op |-> "range", t |-> t, start |-> start,
                                    end |-> end, ret |-> r.ret, items |-> r.items]}]
    /\ UNCHANGED <<backend, tables, rtx, stResult>>
    /\ UNCHANGED <<envVars, dbVars, tblVars, page>>

\* a call of rev_range with the write transaction
LsmRevRange(t, start, end) ==
    /\ wtx.open
    /\ backend \in {"TransactionDB", "DBType"}
    /\ LET r == RockTable_rev_range(wtx.work[t], "ByteSlice", "ByteSlice", start, end) IN
       wtx' = [wtx EXCEPT !.got = {[op |-> "rev_range", t |-> t, start |-> start,
                                    end |-> end, ret |-> r.ret, items |-> r.items]}]
    /\ UNCHANGED <<backend, tables, rtx, stResult>>
    /\ UNCHANGED <<envVars, dbVars, tblVars, page>>

\* vec![0xFF; 512], the end of the range clear of DBType deletes
SentinelLen == 512
Sentinel == [i \in 1 .. SentinelLen |-> 255]

\* delete_range_cf(cf, from, to): the keys from from (inclusive) to to
\* (exclusive) are deleted
delete_range_cf(tbl, from, to) ==
    Without(tbl, {k \in DOMAIN tbl : LexLessEq(from, k) /\ LexLess(k, to)})

\* RockTable::clear(txn). DBType, raw.rs 256-260: one delete_range_cf up to
\* the sentinel. TransactionDB, rck.rs 246-254: the items of
\* range::<ByteSlice, Unit, _>(txn, &..) are collected and the key of each
\* is deleted; Iter::next unwraps the data decoded as Unit, and unit says
\* whether Unit::bytes_decode (heed-types, not in src/) decodes the data
\* that is stored.
RockTable_clear(b, tbl, unit) ==
    IF b = "DBType" THEN [ret |-> "Ok", tbl |-> delete_range_cf(tbl, <<>>, Sentinel)]
    ELSE LET items == iterator_cf_opt(tbl, {}, {}, Start) IN
    IF Len(items) > 0 /\ ~unit THEN [ret |-> "panic", tbl |-> tbl]
    ELSE [ret |-> "Ok", tbl |-> Without(tbl, {items[i].key : i \in 1 .. Len(items)})]

\* a call of clear with the write transaction; had is a ghost, the
\* content of the tables before the call
LsmClear(t, unit) ==
    /\ wtx.open
    /\ backend \in {"TransactionDB", "DBType"}
    /\ LET r == RockTable_clear(backend, wtx.work[t], unit)
           w == Written(backend, t, r.tbl) IN
       /\ wtx' = [wtx EXCEPT !.work = w.work,
                             !.got = {[op |-> "clear", t |-> t, ret |-> r.ret,
                                       had |-> wtx.work]}]
       /\ tables' = w.tables
    /\ UNCHANGED <<backend, rtx, stResult>>
    /\ UNCHANGED <<envVars, dbVars, tblVars, page>>

---------------------------------------------------------------------------
(***************************************************************************)
(* The Table trait beyond get and put: len, the codecs of the LSM tables   *)
(* and the copy of one table into another (store/mod.rs)                   *)
(***************************************************************************)

\* the keys and data of the client of TraitSpec, as bytes
TraitKeys == {<<97>>, <<98>>}
TraitData == {<<1>>}

\* PolyDatabase::len(txn), polymorph.rs 748-764, on the content of the
\* table: the entries a cursor passes from the first one on
PolyDatabase_len(tbl) ==
    LET first == move_on_first(tbl, 0) IN
    IF first.entry = {} THEN 0 ELSE 1 + CountNext(tbl, first.pos)

\* Table::len(txn) of the table named t. Env: PolyDatabase::len (mdb.rs
\* 87-89). TransactionDB and DBType: txn.tx.iterator(IteratorMode::Start)
\* .count() (rck.rs 208-210) and txn.db.iterator(..).count() (raw.rs
\* 209-211); iterator, unlike iterator_cf, walks the default column family
\* and self.cf is not used.
Table_len(b, work, t) ==
    IF b = "Env" THEN PolyDatabase_len(work[t])
    ELSE Len(iterator_cf_opt(work[DefaultCf], {}, {}, Start))

\* a call of len with the write transaction
TableLen(t) ==
    /\ wtx.open
    /\ wtx' = [wtx EXCEPT !.got = {[op |-> "len", t |-> t, ret |-> "Ok",
                                    val |-> Table_len(backend, wtx.work, t)]}]
    /\ UNCHANGED <<backend, tables, rtx, stResult>>
    /\ UNCHANGED <<envVars, dbVars, tblVars, page>>

\* the codecs of the calls of the client with a codec that can fail: the
\* JSON codec of a path does not encode the path <<255>>, which is not
\* UTF-8, and Str does not decode the bytes <<255>>
ClientCodecs == {"ByteSlice", "Str", "SerdeJson"}
ClientItems(codec) == IF codec = "Str" THEN {<<97>>} ELSE {<<97>>, <<255>>}

\* RockTable::get::<KC, DC>(txn, key), rck.rs 110-126 and raw.rs 111-127:
\* KC::bytes_encode(key).unwrap(), then data.and_then(DC::bytes_decode).
\* stored is a ghost, the bytes found under the key.
RockTable_get(tbl, kc, dc, key) ==
    LET key_bytes == bytes_encode(kc, key) IN
    IF key_bytes = {} THEN [ret |-> "panic", val |-> {}, stored |-> {}]
    ELSE LET data == mdb_get(tbl, CHOOSE k \in key_bytes : TRUE) IN
    IF data = {} THEN [ret |-> "Ok", val |-> {}, stored |-> {}]
    ELSE LET out == bytes_decode(dc, CHOOSE v \in data : TRUE) IN
    IF out.panic THEN [ret |-> "panic", val |-> {}, stored |-> data]
    ELSE [ret |-> "Ok", val |-> out.item, stored |-> data]

\* RockTable::put::<KC, DC>(txn, key, data), rck.rs 212-227 and raw.rs
\* 213-228: both encodings are unwrapped, then put_cf
RockTable_put(tbl, kc, dc, key, data) ==
    LET k == bytes_encode(kc, key)
        v == bytes_encode(dc, data) IN
    IF k = {} \/ v = {} THEN [ret |-> "panic", tbl |-> tbl]
    ELSE [ret |-> "Ok",
          tbl |-> mdb_put(tbl, CHOOSE x \in k : TRUE, CHOOSE x \in v : TRUE)]

\* RockTable::delete::<KC>(txn, key), rck.rs 233-244 and raw.rs 238-249:
\* the encoding is unwrapped, then delete_cf
RockTable_delete(tbl, kc, key) ==
    LET k == bytes_encode(kc, key) IN
    IF k = {} THEN [ret |-> "panic", tbl |-> tbl]
    ELSE [ret |-> "Ok", tbl |-> mdb_del(tbl, CHOOSE x \in k : TRUE).tbl]

\* a call of get of a table of the LSM engine with codecs of the caller
CodecGet(t, kc, dc, key) ==
    /\ wtx.open
    /\ backend \in {"TransactionDB", "DBType"}
    /\ LET r == RockTable_get(wtx.work[t], kc, dc, key) IN
       wtx' = [wtx EXCEPT !.got = {[op |-> "get", t |-> t, kc |-> kc, dc |-> dc,
                                    ret |-> r.ret, val |-> r.val,
                                    stored |-> r.stored]}]
    /\ UNCHANGED <<backend, tables, rtx, stResult>>
    /\ UNCHANGED <<envVars, dbVars, tblVars, page>>

\* a call of put of a table of the LSM engine with codecs of the caller;
\* encoded is a ghost: both items have an encoding
CodecPut(t, kc, dc, key, data) ==
    /\ wtx.open
    /\ backend \in {"TransactionDB", "DBType"}
    /\ LET r == RockTable_put(wtx.work[t], kc, dc, key, data)
           w == Written(backend, t, r.tbl) IN
       /\ wtx' = [wtx EXCEPT !.work = w.work,
                             !.got = {[op |-> "put", t |-> t, ret |-> r.ret,
                                       encoded |-> /\ bytes_encode(kc, key) # {}
                                                   /\ bytes_encode(dc, data) # {}]}]
       /\ tables' = w.tables
    /\ stResult' = [stResult EXCEPT !.wrote = TRUE]
    /\ UNCHANGED <<backend, rtx>>
    /\ UNCHANGED <<envVars, dbVars, tblVars, page>>

\* a call of delete of a table of the LSM engine with a codec of the caller
CodecDelete(t, kc, key) ==
    /\ wtx.open
    /\ backend \in {"TransactionDB", "DBType"}
    /\ LET r == RockTable_delete(wtx.work[t], kc, key)
           w == Written(backend, t, r.tbl) IN
       /\ wtx' = [wtx EXCEPT !.work = w.work,
                             !.got = {[op |-> "delete", t |-> t, ret |-> r.ret,
                                       encoded |-> bytes_encode(kc, key) # {}]}]
       /\ tables' = w.tables
    /\ stResult' = [stResult EXCEPT !.wrote = TRUE]
    /\ UNCHANGED <<backend, rtx>>
    /\ UNCHANGED <<envVars, dbVars, tblVars, page>>

\* a call of range over the full range of a table of the LSM engine with
\* codecs of the caller, its items collected; entries is a ghost, the
\* entries the iterator walks
CodecRange(t, kc, dc) ==
    /\ wtx.open
    /\ backend \in {"TransactionDB", "DBType"}
    /\ LET r == RockTable_range(wtx.work[t], kc, dc, Unbounded, Unbounded) IN
       wtx' = [wtx EXCEPT !.got = {[op |-> "range", t |-> t, kc |-> kc, dc |-> dc,
                                    ret |-> r.ret, items |-> r.items,
                                    entries |-> SortedEntries(wtx.work[t])]}]
    /\ UNCHANGED <<backend, tables, rtx, stResult>>
    /\ UNCHANGED <<envVars, dbVars, tblVars, page>>

---------------------------------------------------------------------------
(***************************************************************************)
(* The mutable iterators of PolyDatabase: iter_mut, rev_iter_mut,          *)
(* range_mut and prefix_iter_mut hand a RwCursor to RwIter, RwRevIter,     *)
(* RwRange and RwPrefix, which add del_current and put_current to the      *)
(* iteration of their read-only counterparts                               *)
(***************************************************************************)

\* the keys the client of MutIterSpec stores, the bounds of its ranges and
\* its prefixes
MutKeys == {<<97>>, <<97, 255>>, <<98>>}
MutBounds == {Unbounded, Included(<<97, 255>>), Excluded(<<97, 255>>)}
MutPrefixes == {<<97>>, <<98>>}

\* what the caller does with an item next has returned: nothing, or
\* del_current, or put_current with the key of the item and the data
\* NewData, before it calls next again
MutOps == {"next", "del_current", "put_current"}
Plans == [1 .. Cardinality(MutKeys) -> MutOps]
NewData == <<97>>

\* del_current after which the cursor has moved on: the following next
\* steps over the entry that took the place of the deleted one
del_current_MovesOn(tbl, cur, forward) ==
    LET rest == Without(tbl, {Entry(tbl, cur.pos).key}) IN
    [work |-> rest,
     next |-> IF forward
              THEN IF cur.pos + 1 <= Cardinality(DOMAIN rest)
                   THEN Moved(rest, cur.pos + 1) ELSE NotMoved(cur.pos)
              ELSE IF cur.pos > 2 THEN Moved(rest, cur.pos - 2)
                   ELSE NotMoved(cur.pos)]

\* RwCursor::del_current with the cursor on the entry at cur.pos:
\* mdb_cursor_del removes the entry and leaves the cursor at its place, so
\* that the following MDB_NEXT returns the entry that took the place and
\* the following MDB_PREV the entry before it
del_current(tbl, cur, forward) ==
    LET rest == Without(tbl, {Entry(tbl, cur.pos).key}) IN
    [work |-> rest,
     next |-> IF forward
              THEN IF cur.pos <= Cardinality(DOMAIN rest) THEN Moved(rest, cur.pos)
                   ELSE NotMoved(cur.pos)
              ELSE IF cur.pos > 1 THEN Moved(rest, cur.pos - 1)
                   ELSE NotMoved(cur.pos)]

\* RwCursor::put_current(key, data) with the key of the entry the cursor
\* is on: mdb_cursor_put with MDB_CURRENT replaces the data and leaves the
\* cursor on the entry
put_current(tbl, cur, forward, data) ==
    LET e == CHOOSE x \in cur.entry : TRUE
        new == mdb_put(tbl, e.key, CHOOSE b \in bytes_encode("Str", data) : TRUE) IN
    [work |-> new,
     next |-> IF forward THEN move_on_next(new, cur.pos)
              ELSE move_on_prev(new, cur.pos)]

\* the calls of next of a mutable iterator from the entry cur on, which is
\* the i-th the cursor has moved on: an entry that satisfies the end bound
\* is returned, the caller does plan[i] with it and calls next again.
\* entries are the entries returned and work is the content left.
RECURSIVE RwNext(_, _, _, _, _, _)
RwNext(tbl, cur, forward, end_bound, plan, i) ==
    IF cur.entry = {} \/ \E e \in cur.entry : ~WithinEnd(e.key, end_bound)
    THEN [entries |-> <<>>, work |-> tbl]
    ELSE LET did == CASE plan[i] = "del_current" -> del_current(tbl, cur, forward)
                      [] plan[i] = "put_current" ->
                            put_current(tbl, cur, forward, NewData)
                      [] OTHER ->
                            [work |-> tbl,
                             next |-> IF forward THEN move_on_next(tbl, cur.pos)
                                      ELSE move_on_prev(tbl, cur.pos)]
             rest == RwNext(did.work, did.next, forward, end_bound, plan, i + 1) IN
         [entries |-> <<CHOOSE e \in cur.entry : TRUE>> \o rest.entries,
          work |-> rest.work]

\* PolyDatabase::iter_mut::<KC, DC>(txn), lines 911-918, and the RwIter it
\* returns driven by the plan of the caller
iter_mut(h, tx, kc, dc, plan) ==
    IF ~SameEnvIdent(h, tx) THEN [ret |-> "panic", items |-> <<>>, work |-> tx.work]
    ELSE LET r == RwNext(tx.work, move_on_first(tx.work, 0), TRUE, Unbounded, plan, 1) IN
         [ret |-> "Ok", items |-> Items(kc, dc, r.entries), work |-> r.work]

\* PolyDatabase::rev_iter_mut::<KC, DC>(txn), lines 1019-1026, and the
\* RwRevIter it returns driven by the plan of the caller
rev_iter_mut(h, tx, kc, dc, plan) ==
    IF ~SameEnvIdent(h, tx) THEN [ret |-> "panic", items |-> <<>>, work |-> tx.work]
    ELSE LET r == RwNext(tx.work, move_on_last(tx.work, 0), FALSE, Unbounded, plan, 1) IN
         [ret |-> "Ok", items |-> Items(kc, dc, r.entries), work |-> r.work]

\* PolyDatabase::range_mut::<KC, DC, R>(txn, range), lines 1162-1198, and
\* the RwRange it returns driven by the plan of the caller
range_mut(h, tx, kc, dc, start, end, plan) ==
    IF ~SameEnvIdent(h, tx) THEN [ret |-> "panic", items |-> <<>>, work |-> tx.work]
    ELSE LET start_bound == EncodedBound(kc, start)
             end_bound == EncodedBound(kc, end) IN
    IF start_bound = {} \/ end_bound = {}
    THEN [ret |-> "Encoding", items |-> <<>>, work |-> tx.work]
    ELSE LET r == RwNext(tx.work,
                         move_on_range_start(tx.work, CHOOSE b \in start_bound : TRUE),
                         TRUE, CHOOSE b \in end_bound : TRUE, plan, 1) IN
         [ret |-> "Ok", items |-> Items(kc, dc, r.entries), work |-> r.work]

\* PolyDatabase::prefix_iter_mut::<KC, DC>(txn, prefix) and the RwPrefix it
\* returns driven by the plan of the caller
prefix_iter_mut(h, tx, kc, dc, prefix, plan) ==
    IF ~SameEnvIdent(h, tx) THEN [ret |-> "panic", items |-> <<>>, work |-> tx.work]
    ELSE LET prefix_bytes == bytes_encode(kc, prefix) IN
    IF prefix_bytes = {} THEN [ret |-> "Encoding", items |-> <<>>, work |-> tx.work]
    ELSE LET p == CHOOSE b \in prefix_bytes : TRUE
             r == RwNext(tx.work, move_on_range_start(tx.work, Included(p)), TRUE,
                         IF Incremented(p) = {} THEN Unbounded
                         ELSE Excluded(CHOOSE end \in Incremented(p) : TRUE),
                         plan, 1) IN
         [ret |-> "Ok", items |-> Items(kc, dc, r.entries), work |-> r.work]

\* a mutable iteration of the client with its handle and write transaction,
\* driven to its end; the result keeps the kind of the iterator, its
\* bounds and the plan, and had is a ghost: the content before the call
MutIteration(kind, start, end, plan, r) ==
    /\ txn.kind = "rw"
    /\ db.present
    /\ tblResult.op \in {"none", "put"}
    /\ txn' = [txn EXCEPT !.work = r.work]
    /\ tblResult' = TblRet(kind, r.ret, {<<start, end, plan, r.items>>}, txn.work)
    /\ UNCHANGED <<envAddr, store, db>>
    /\ UNCHANGED <<envVars, dbVars, seq, storeVars>>

IterMut(kc, dc, plan) ==
    /\ db.present
    /\ MutIteration("iter_mut", Unbounded, Unbounded, plan,
                    iter_mut(db, txn, kc, dc, plan))

RevIterMut(kc, dc, plan) ==
    /\ db.present
    /\ MutIteration("rev_iter_mut", Unbounded, Unbounded, plan,
                    rev_iter_mut(db, txn, kc, dc, plan))

RangeMut(kc, dc, start, end, plan) ==
    /\ db.present
    /\ MutIteration("range_mut", start, end, plan,
                    range_mut(db, txn, kc, dc, start, end, plan))

PrefixIterMut(kc, dc, prefix, plan) ==
    /\ db.present
    /\ MutIteration("prefix_iter_mut", Included(prefix), Unbounded, plan,
                    prefix_iter_mut(db, txn, kc, dc, prefix, plan))

---------------------------------------------------------------------------
(***************************************************************************)
(* paged (store/mod.rs 363-379): a query run page by page                  *)
(***************************************************************************)

\* the values of the query and the invocations of fun the model follows
PageValues == 0 .. 4
MaxCalls == 4

\* paged(start, fun), lines 367-368: let mut old = start.clone(); let mut
\* cur = start.clone(); and the loop is entered
Paged(start) ==
    /\ page.pc = "idle"
    /\ page' = [NoPage EXCEPT !.pc = "loop", !.old = start, !.cur = start]
    /\ UNCHANGED <<backend, tables, wtx, rtx, stResult>>
    /\ UNCHANGED <<envVars, dbVars, tblVars>>

\* the body of the loop on the run p, lines 370-374: fun(&mut cur)? leaves
\* new in cur and returns Ok (ok) or an error, which paged returns; then
\* if old == cur { return Ok(()) }, else old = cur.clone()
paged(p, new, ok) ==
    LET called == [p EXCEPT !.cur = new, !.calls = @ + 1,
                            !.same = IF new = p.cur THEN @ + 1 ELSE 0] IN
    IF ~ok THEN [called EXCEPT !.pc = "done", !.ret = "Err"]
    ELSE IF p.old = new THEN [called EXCEPT !.pc = "done", !.ret = "Ok"]
    ELSE [called EXCEPT !.old = new]

\* one round of the loop
PagedLoop(new, ok) ==
    /\ page.pc = "loop"
    /\ page.calls < MaxCalls
    /\ page' = paged(page, new, ok)
    /\ UNCHANGED <<backend, tables, wtx, rtx, stResult>>
    /\ UNCHANGED <<envVars, dbVars, tblVars>>

\* the caller has the result of paged
PagedEnd ==
    /\ page.pc = "done"
    /\ page' = NoPage
    /\ UNCHANGED <<backend, tables, wtx, rtx, stResult>>
    /\ UNCHANGED <<envVars, dbVars, tblVars>>

---------------------------------------------------------------------------
(***************************************************************************)
(* bytecopy (store/mod.rs 298-320): the copy of a table into a table of    *)
(* another store                                                           *)
(***************************************************************************)

\* Table::append::<ByteSlice, ByteSlice>(wtx, key, data) on the content of
\* the destination. Env: PolyDatabase::append (mdb.rs 104-115,
\* polymorph.rs 1688-1748), mdb_put with MDB_APPEND, which is MDB_KEYEXIST
\* unless the key is greater than the last key of the table. TransactionDB
\* and DBType: self.put (rck.rs 229-231, raw.rs 230-241). ok = FALSE is an
\* error of the engine, which stores nothing.
Table_append(b, tbl, key, data, ok) ==
    IF ~ok THEN [ret |-> "Err", tbl |-> tbl]
    ELSE IF b = "Env"
    THEN IF \E k \in DOMAIN tbl : ~LexLess(k, key)
         THEN [ret |-> "Err", tbl |-> tbl]
         ELSE [ret |-> "Ok", tbl |-> mdb_put(tbl, key, data)]
    ELSE RockTable_put(tbl, "ByteSlice", "ByteSlice", key, data)

\* t1.range::<ByteSlice, ByteSlice, _>(rtx, &..) of the source. Env:
\* PolyDatabase::range (mdb.rs 61-72); TransactionDB and DBType:
\* RockTable::range.
Table_range_full(b, tbl) ==
    IF b = "Env"
    THEN [ret |-> "Ok",
          items |-> Items("ByteSlice", "ByteSlice", RoRange(tbl, Unbounded, Unbounded))]
    ELSE RockTable_range(tbl, "ByteSlice", "ByteSlice", Unbounded, Unbounded)

\* the loop of bytecopy, store/mod.rs 314-317, from the i-th item on:
\* let (k, v) = item.map_err(Either::Left)?;
\* t2.append(wtx, &k, &v).map_err(Either::Right)?; failAt is the item at
\* whose append the engine of the destination fails (0: at none)
RECURSIVE CopyItems(_, _, _, _, _)
CopyItems(items, i, b2, dst, failAt) ==
    IF i > Len(items) THEN [ret |-> "Ok", tbl |-> dst]
    ELSE IF items[i].ret # "Ok" THEN [ret |-> "Left", tbl |-> dst]
    ELSE LET kv == CHOOSE x \in items[i].val : TRUE
             a == Table_append(b2, dst, kv[1], kv[2], failAt # i) IN
         IF a.ret # "Ok" THEN [ret |-> "Right", tbl |-> a.tbl]
         ELSE CopyItems(items, i + 1, b2, a.tbl, failAt)

\* bytecopy that does not copy the first item
bytecopy_FromSecond(b1, src, b2, dst, failAt) ==
    LET r == Table_range_full(b1, src) IN
    IF r.ret # "Ok" THEN [ret |-> "Left", tbl |-> dst]
    ELSE CopyItems(r.items, 2, b2, dst, failAt)

\* bytecopy(rtx, wtx, t1, t2), store/mod.rs 298-320, with the source of
\* engine b1 holding src as rtx sees it and the destination of engine b2
\* holding dst as wtx sees it
bytecopy(b1, src, b2, dst, failAt) ==
    LET r == Table_range_full(b1, src) IN
    IF r.ret # "Ok" THEN [ret |-> "Left", tbl |-> dst]
    ELSE CopyItems(r.items, 1, b2, dst, failAt)

\* a call of bytecopy from the table t1 of a store of engine b1, read
\* through the read transaction, into the table t2 of the client's store,
\* written through its write transaction; src and had are ghosts, the
\* content of the source and of the destination before the call
ByteCopy(b1, failAt) ==
    /\ wtx.open
    /\ rtx.open
    /\ LET src == Seen(b1, rtx)["t1"]
           r == bytecopy(b1, src, backend, wtx.work["t2"], failAt)
           w == Written(backend, "t2", r.tbl) IN
       /\ wtx' = [wtx EXCEPT !.work = w.work,
                             !.got = {[op |-> "bytecopy", ret |-> r.ret, b1 |-> b1,
                                       src |-> src, had |-> wtx.work["t2"]]}]
       /\ tables' = w.tables
    /\ stResult' = [stResult EXCEPT !.wrote = TRUE]
    /\ UNCHANGED <<backend, rtx>>
    /\ UNCHANGED <<envVars, dbVars, tblVars, page>>

--------------------------------------------------------------------------
(***************************************************************************)
(* The specifications                                                      *)
(***************************************************************************)

Init == InitEnv /\ InitDb /\ InitTbl /\ InitStore

Next ==
    \/ \E t \in Threads, raw \in RawPaths, opts \in Options : OpenBadPath(t, raw, opts)
    \/ \E t \in Threads, raw \in RawPaths, opts \in Options : OpenOccupied(t, raw, opts)
    \/ \E t \in Threads, raw \in RawPaths, opts \in Options, ok \in BOOLEAN :
          OpenVacant(t, raw, opts, ok)
    \/ \E t \in Threads : OpenNativeDone(t)
    \/ \E t \in Threads, e \in EnvIds, t2 \in Threads : CloneEnv(t, e, t2)
    \/ \E t \in Threads, e \in EnvIds : DropHandle(t, e)
    \/ \E t \in Threads : Release(t)
    \/ \E t \in Threads : DropRemove(t)
    \/ \E t \in Threads : DropSignal(t)
    \/ \E t \in Threads, e \in EnvIds : PfcTake(t, e)
    \/ \E t \in Threads, ev \in EnvIds : WaitBegin(t, ev)
    \/ \E t \in Threads : WaitReturn(t)
    \/ \E t \in Threads, ev \in EnvIds : WaitTimeout(t, ev)
    \/ \E t \in Threads, raw \in RawPaths : EnvClosingEventCall(t, raw)

Spec == Init /\ [][Next]_vars

(***************************************************************************)
(* LiveSpec: Spec with the progress the threads make. A thread inside a    *)
(* call keeps running (WF); a thread blocked on the registry lock gets it  *)
(* when it is free again and again (SF); and, the hypothesis of the        *)
(* liveness claim, user code that can drop a clone of an environment that  *)
(* is being closed eventually does so.                                     *)
(***************************************************************************)
Fairness ==
    \A t \in Threads :
        /\ WF_vars(OpenNativeDone(t))
        /\ WF_vars(Release(t))
        /\ SF_vars(DropRemove(t))
        /\ WF_vars(DropSignal(t))
        /\ WF_vars(WaitReturn(t))
        /\ \A e \in EnvIds : SF_vars(e \in closing /\ DropHandle(t, e))

LiveSpec == Init /\ [][Next]_vars /\ Fairness

\* DbSpec: two threads open and create the databases of one environment
DbNext ==
    \/ \E t \in Threads, name \in DbNames, pair \in CodecPairs :
          open_database(t, name, pair)
    \/ \E t \in Threads, name \in DbNames : open_poly_database(t, name)
    \/ \E t \in Threads, name \in DbNames, pair \in CodecPairs :
          create_database(t, name, pair)
    \/ \E t \in Threads, name \in DbNames : create_poly_database(t, name)
    \/ \E t \in Threads, ok \in BOOLEAN : RawInitDone(t, ok)

DbSpec == Init /\ [][DbNext]_vars

\* TableSpec: one client with environments, a transaction and a handle
TableNext ==
    \/ \E e \in TblEnvs, a \in Addrs : TblEnvOpen(e, a)
    \/ \E e \in TblEnvs : TblEnvClose(e)
    \/ \E e \in TblEnvs : ReadTxn(e)
    \/ \E e \in TblEnvs : WriteTxn(e)
    \/ Commit
    \/ Abort
    \/ OpenPoly
    \/ \E kc \in KeyCodecs, dc \in DataCodecs : \E key \in KeyItems(kc) :
          Get(kc, dc, key)
    \/ \E kc \in KeyCodecs, dc \in DataCodecs :
          \E key \in KeyItems(kc), data \in DataItems(dc), ok \in BOOLEAN :
             Put(kc, dc, key, data, ok)

TableSpec == Init /\ [][TableNext]_vars

\* CursorSpec: one client with one environment, one write transaction and
\* a handle, storing, deleting, counting, looking up and iterating in the
\* transaction
CursorNext ==
    \/ TblEnvOpen("A", "0x1")
    \/ WriteTxn("A")
    \/ OpenPoly
    \/ \E key \in StoredKeys : Put("ByteSlice", "Str", key, <<233>>, TRUE)
    \/ \E key \in SearchKeys, ok \in BOOLEAN : Delete("ByteSlice", key, ok)
    \/ LenCall
    \/ IsEmpty
    \/ \E ok \in BOOLEAN : Clear(ok)
    \/ Iter("ByteSlice", "Str")
    \/ RevIter("ByteSlice", "Str")
    \/ \E start \in Bounds, end \in Bounds : Range("ByteSlice", "Str", start, end)
    \/ \E start \in Bounds, end \in Bounds : DeleteRange("ByteSlice", start, end)
    \/ \E prefix \in Prefixes : PrefixIter("ByteSlice", "Str", prefix)
    \/ \E key \in SearchKeys : GetLowerThan("ByteSlice", "Str", key)
    \/ \E key \in SearchKeys : GetLowerThanOrEqualTo("ByteSlice", "Str", key)
    \/ \E key \in SearchKeys : GetGreaterThan("ByteSlice", "Str", key)
    \/ \E key \in SearchKeys : GetGreaterThanOrEqualTo("ByteSlice", "Str", key)

CursorSpec == Init /\ [][CursorNext]_vars

\* SeqSpec: one client with one environment, its transactions and a
\* handle, reading and increasing the sequence of the database
SeqNext ==
    \/ TblEnvOpen("A", "0x1")
    \/ ReadTxn("A")
    \/ WriteTxn("A")
    \/ Commit
    \/ Abort
    \/ OpenPoly
    \/ Sequence
    \/ \E increment \in 0 .. MaxSequence : IncreaseSequence(increment)
    \/ OtherReadTxn("A")
    \/ OtherSequence("A")
    \/ OtherEnd

SeqSpec == Init /\ [][SeqNext]_vars

\* StoreSpec: a store of one of the implementations, a writer that runs
\* with_wtx and a reader with a read transaction
StoreNext ==
    \/ \E b \in Backends : StoreOpen(b)
    \/ Rtx
    \/ \E t \in {"t1"}, key \in WriterKeys : RtxGet(t, key)
    \/ RtxEnd
    \/ WithWtx
    \/ \E t \in {"t1"}, key \in WriterKeys, data \in WriterData : WtxPut(t, key, data)
    \/ \E ok \in BOOLEAN, cok \in BOOLEAN : WithWtxReturn(ok, cok)

StoreSpec == Init /\ [][StoreNext]_vars

\* LsmSpec: one client with a store of the LSM engine and a write
\* transaction, writing and iterating its tables
LsmNext ==
    \/ \E b \in {"TransactionDB", "DBType"} : StoreOpen(b)
    \/ WithWtx
    \/ \E key \in LsmKeys \cup {Sentinel} : WtxPut("t1", key, <<1>>)
    \/ WtxPut("t2", <<97>>, <<1>>)
    \/ \E t \in {"t1", "t2"}, unit \in BOOLEAN : LsmClear(t, unit)
    \/ \E start \in LsmBounds, end \in LsmBounds : LsmRange("t1", start, end)
    \/ \E start \in LsmBounds, end \in LsmBounds : LsmRevRange("t1", start, end)

LsmSpec == Init /\ [][LsmNext]_vars

\* TraitSpec: one client with a store of one of the implementations and a
\* write transaction, using its tables through the Table trait
TraitNext ==
    \/ \E b \in Backends : StoreOpen(b)
    \/ WithWtx
    \/ \E t \in TableNames, key \in TraitKeys, data \in TraitData : WtxPut(t, key, data)
    \/ \E t \in TableNames : TableLen(t)

TraitSpec == Init /\ [][TraitNext]_vars

\* CodecSpec: one client with a store of the LSM engine and a write
\* transaction, calling a table with codecs that can fail
CodecNext ==
    \/ \E b \in {"TransactionDB", "DBType"} : StoreOpen(b)
    \/ WithWtx
    \/ \E kc \in ClientCodecs, dc \in ClientCodecs :
          \E key \in ClientItems(kc) : CodecGet("t1", kc, dc, key)
    \/ \E kc \in ClientCodecs, dc \in ClientCodecs :
          \E key \in ClientItems(kc), data \in ClientItems(dc) :
             CodecPut("t1", kc, dc, key, data)
    \/ \E kc \in ClientCodecs : \E key \in ClientItems(kc) : CodecDelete("t1", kc, key)
    \/ \E kc \in ClientCodecs, dc \in ClientCodecs : CodecRange("t1", kc, dc)

CodecSpec == Init /\ [][CodecNext]_vars

\* MutIterSpec: one client with one environment, one write transaction and
\* a handle, storing entries and running a mutable iterator over them
MutIterNext ==
    \/ TblEnvOpen("A", "0x1")
    \/ WriteTxn("A")
    \/ OpenPoly
    \/ \E key \in MutKeys : Put("ByteSlice", "Str", key, <<233>>, TRUE)
    \/ \E plan \in Plans : IterMut("ByteSlice", "Str", plan)
    \/ \E plan \in Plans : RevIterMut("ByteSlice", "Str", plan)
    \/ \E start \in MutBounds, end \in MutBounds, plan \in Plans :
          RangeMut("ByteSlice", "Str", start, end, plan)
    \/ \E prefix \in MutPrefixes, plan \in Plans :
          PrefixIterMut("ByteSlice", "Str", prefix, plan)

MutIterSpec == Init /\ [][MutIterNext]_vars

\* PagedSpec: runs of paged with a fun that sets the value and returns Ok
\* or an error as it likes
PagedNext ==
    \/ \E start \in PageValues : Paged(start)
    \/ \E new \in PageValues, ok \in BOOLEAN : PagedLoop(new, ok)
    \/ PagedEnd

PagedSpec == Init /\ [][PagedNext]_vars

\* CopySpec: a client that fills and commits the source table t1, begins a
\* read transaction and copies t1 into the table t2 of its store in a
\* write transaction; the source is a table of any of the engines
CopyKeys == {<<97>>, <<97, 0>>}
FailAt == 0 .. 2

CopyNext ==
    \/ \E b \in Backends : StoreOpen(b)
    \/ WithWtx
    \/ \E key \in CopyKeys : WtxPut("t1", key, key)
    \/ WtxPut("t2", <<97>>, <<1>>)
    \/ \E ok \in BOOLEAN : WithWtxReturn(ok, TRUE)
    \/ Rtx
    \/ \E b1 \in Backends, failAt \in FailAt : ByteCopy(b1, failAt)

CopySpec == Init /\ [][CopyNext]_vars

--------------------------------------------------------------------------
(***************************************************************************)
(* Claims about the environment registry                                   *)
(***************************************************************************)

\* the step of a call open(raw) with options opts by thread t that looks the
\* path up under the write lock
Opening(t, raw, opts) ==
    \/ OpenOccupied(t, raw, opts)
    \/ \E ok \in BOOLEAN : OpenVacant(t, raw, opts, ok)

\* C1: while the registry holds an open entry for P created with C, an
\* open(P) with the same C returns a handle to the environment of that entry:
\* the caller gets one more clone of it, no native environment is created
\* and the registry is unchanged (still the one entry for P).
C1_OpenSharesEnvironment ==
    [][\A t \in Threads, raw \in RawPaths, opts \in Options :
         ( /\ pc[t] = "idle"
           /\ canonicalize_path(raw) # {}
           /\ registry[Canonical(raw)].present
           /\ registry[Canonical(raw)].env # {}
           /\ registry[Canonical(raw)].options = opts
           /\ Opening(t, raw, opts) )
         => \E e \in registry[Canonical(raw)].env :
               /\ result' = OpenRet("Ok", {e}, "open")
               /\ handles' = [handles EXCEPT ![t][e] = @ + 1]
               /\ strong' = [strong EXCEPT ![e] = @ + 1]
               /\ native' = native
               /\ nextEnv' = nextEnv
               /\ registry' = registry
               /\ pc'[t] = "idle"
      ]_vars

\* an open found the open entry of an environment and two threads now own a
\* handle of that one environment
C1_Witness ==
    /\ result.op = "open" /\ result.ret = "Ok" /\ result.found = "open"
    /\ \E e \in result.env :
         /\ native[e] = "open"
         /\ \A t \in Threads : handles[t][e] > 0
         /\ Cardinality({x \in EnvIds : Live(x)}) = 1

\* C2: at no time do two live native environments exist for one canonical
\* path: a native open of a path starts only after the native close of the
\* previous environment of that path has completed.
C2_OneNativeEnvPerPath ==
    \A p \in Paths : Cardinality({e \in EnvIds : Live(e) /\ envPath[e] = p}) <= 1

\* a path was opened again after its previous environment was closed
C2_Witness ==
    \E e1, e2 \in EnvIds :
        /\ envPath[e1] = envPath[e2]
        /\ native[e1] = "closed"
        /\ native[e2] = "open"

\* C3: an open(P) with options C' fails with BadOpenOptions whenever the
\* registry holds an entry for P with other options, open or closing; the
\* call creates no native environment and changes neither the registry nor
\* the handles.
C3_BadOpenOptions ==
    [][\A t \in Threads, raw \in RawPaths, opts \in Options :
         ( /\ pc[t] = "idle"
           /\ canonicalize_path(raw) # {}
           /\ registry[Canonical(raw)].present
           /\ registry[Canonical(raw)].options # opts
           /\ Opening(t, raw, opts) )
         => /\ result'.op = "open" /\ result'.ret = "BadOpenOptions"
            /\ native' = native
            /\ nextEnv' = nextEnv
            /\ registry' = registry
            /\ handles' = handles
            /\ strong' = strong
            /\ pc'[t] = "idle"
      ]_vars

\* an open with other options was refused on a closing entry
C3_Witness ==
    /\ result.op = "open" /\ result.ret = "BadOpenOptions"
    /\ result.found = "closing"

\* C4: from prepare_for_closing on an environment of path P until the last
\* clone of that environment is released, the registry keeps the closing
\* entry of P and every open(P) with the entry's options fails with
\* DatabaseClosing; no open(P) returns a handle or opens a native environment.
C4_ClosingInProgress ==
    [][\A t \in Threads, raw \in RawPaths, opts \in Options, e \in EnvIds :
         ( /\ pc[t] = "idle"
           /\ canonicalize_path(raw) # {}
           /\ e \in closing
           /\ strong[e] > 0
           /\ envPath[e] = Canonical(raw)
           /\ Opening(t, raw, opts) )
         => /\ registry[envPath[e]].present
            /\ registry[envPath[e]].env = {}
            /\ registry[envPath[e]].signal_event = {e}
            /\ registry[envPath[e]].options = opts
                  => result' = OpenRet("DatabaseClosing", {}, "closing")
            /\ result'.ret # "Ok"
            /\ native' = native
            /\ nextEnv' = nextEnv
            /\ handles' = handles
            /\ strong' = strong
      ]_vars

\* an open was refused as closing while a thread still owns a clone of the
\* environment that is being closed
C4_Witness ==
    /\ result.op = "open" /\ result.ret = "DatabaseClosing"
    /\ \E e \in closing, t \in Threads : handles[t][e] > 0

\* a clone of environment e that is alive: owned by user code, or a local
\* of a running prepare_for_closing not yet dropped
CloneAlive(e) ==
    \E t \in Threads :
        \/ handles[t][e] > 0
        \/ pc[t] = "release" /\ local[t].env = {e}

\* C5: the native environment is not released while a clone is alive: after
\* prepare_for_closing every surviving clone refers to the open native
\* environment and the closing event is unsignaled (wait_timeout returns
\* false).
C5_OpenWhileCloneAlive ==
    \A e \in EnvIds :
        CloneAlive(e) => /\ native[e] = "open"
                         /\ signalCount[e] = 0
                         /\ ~wait_timeout(e)

\* prepare_for_closing has returned and another clone survives
C5_Witness ==
    \E e \in closing, t \in Threads :
        /\ handles[t][e] > 0
        /\ \A u \in Threads : pc[u] = "idle"
        /\ e \in events

\* C6 as stated: the event is signaled once, after the native close, and
\* when wait() returns env_closing_event(path) returns None.
C6_Original ==
    [][\A t \in Threads :
         WaitReturn(t) =>
            \A ev \in local[t].ev :
               /\ signalCount[ev] = 1
               /\ native[ev] = "closed"
               /\ env_closing_event(envPath[ev])' = {}
      ]_vars

\* C6 amended: the event of an environment is signaled at most once, and it
\* is signaled exactly when the native environment has been closed, after
\* the registry entry of the environment was removed; hence when wait() has
\* returned, env_closing_event(path) never returns the event waited on: it
\* returns None, or the event of an environment opened for the path later.
C6_SignaledOnceAfterClose ==
    /\ \A e \in EnvIds :
         /\ signalCount[e] <= 1
         /\ signalCount[e] = 1 <=> native[e] = "closed"
         /\ native[e] \in {"closing", "closed"} => env_closing_event(envPath[e]) # {e}
    /\ result.op = "wait" =>
         \A ev \in result.env : signalCount[ev] = 1 /\ native[ev] = "closed"

\* wait() has returned and the path has no entry
C6_Witness ==
    /\ result.op = "wait"
    /\ \E ev \in result.env : env_closing_event(envPath[ev]) = {}

\* C7: once prepare_for_closing was called on an environment, a thread
\* blocked in wait() on its event eventually returns, unless a clone is
\* never dropped because its owner is itself blocked in wait(); and a thread
\* blocked on the registry lock in EnvInner::drop eventually gets it.
C7_WaitReturns ==
    /\ \A t \in Threads, e \in EnvIds :
         (pc[t] = "waiting" /\ local[t].ev = {e} /\ e \in closing)
            ~> ( \/ pc[t] # "waiting"
                 \/ \E u \in Threads : pc[u] = "waiting" /\ handles[u][e] > 0 )
    /\ \A t \in Threads : (pc[t] = "drop_wait") ~> (pc[t] # "drop_wait")

\* a thread that waited for an environment being closed has returned
C7_Witness ==
    /\ result.op = "wait"
    /\ \E ev \in result.env : ev \in closing /\ signalCount[ev] = 1

--------------------------------------------------------------------------
(***************************************************************************)
(* Claims about the type record of the databases                           *)
(***************************************************************************)

\* C8 (as stated): within one environment the first typed open/create of
\* a raw table records its codec pair, and every later typed open/create
\* of that raw table returns Ok when it presents the same pair and
\* InvalidDatabaseTyping when it presents another pair. The step is the
\* return of a typed call whose mdb_dbi_open gave dbi d. Refuted: when a
\* polymorphic open of the raw table came first, the record of d is None,
\* the first typed open records nothing and it and every later typed open
\* fail.
C8_Original ==
    [][\A t \in Threads :
          ( /\ \E ok \in BOOLEAN : RawInitDone(t, ok)
            /\ dbLocal[t].types # {}
            /\ dbResult'.dbi # 0 )
          => LET d == dbResult'.dbi
                 types == dbLocal[t].types IN
             IF firstTyped[d] = {}
             THEN /\ typeRec'[d] = Recorded(types)
                  /\ dbResult'.ret = "Ok"
             ELSE /\ types = firstTyped[d] => dbResult'.ret = "Ok"
                  /\ types # firstTyped[d] =>
                        dbResult'.ret = "InvalidDatabaseTyping"
      ]_vars

--------------------------------------------------------------------------
(***************************************************************************)
(* Claims about the table operations                                       *)
(***************************************************************************)

\* a call of a table operation by the client
TableOp(kc, dc, key) ==
    \/ Get(kc, dc, key)
    \/ \E data \in DataItems(dc), ok \in BOOLEAN : Put(kc, dc, key, data, ok)

\* C9 (as stated): a table operation called with a transaction of another
\* environment than the one the handle was opened in panics before any
\* engine call: no result is returned and the content of no environment
\* and of no transaction changes. Refuted: env_ident is the address of the
\* native environment, and an environment opened after the handle's
\* environment was closed can have that address.
C9_Original ==
    [][\A kc \in KeyCodecs, dc \in DataCodecs : \A key \in KeyItems(kc) :
          (TableOp(kc, dc, key) /\ db.of # txn.env)
          => /\ tblResult'.ret = "panic"
             /\ store' = store
             /\ txn' = txn
      ]_vars

\* C10: in every state of a write transaction, when put::<KC, DC>(key,
\* data) returns Ok, get::<KC, DC>(key) on the content the transaction
\* sees afterwards returns data; if the key was stored before, the number
\* of entries is unchanged (it grows by one otherwise); the entry of every
\* other key is unchanged.
C10_PutThenGet ==
    (txn.kind = "rw" /\ db.present) =>
    \A kc \in KeyCodecs, dc \in DataCodecs :
       \A key \in KeyItems(kc), data \in DataItems(dc), ok \in BOOLEAN :
          LET r == put(db, txn, kc, dc, key, data, ok)
              after == [txn EXCEPT !.work = r.work]
              kb == CHOOSE k \in bytes_encode(kc, key) : TRUE IN
          r.ret = "Ok" =>
             /\ get(db, after, kc, dc, key) = [ret |-> "Ok", val |-> {data}]
             /\ kb \in DOMAIN txn.work =>
                   Cardinality(DOMAIN after.work) = Cardinality(DOMAIN txn.work)
             /\ kb \notin DOMAIN txn.work =>
                   Cardinality(DOMAIN after.work) = Cardinality(DOMAIN txn.work) + 1
             /\ DOMAIN after.work = DOMAIN txn.work \cup {kb}
             /\ \A k2 \in DOMAIN txn.work \ {kb} : after.work[k2] = txn.work[k2]
             /\ \A key2 \in KeyItems(kc) \ {key}, dc2 \in DataCodecs :
                   get(db, after, kc, dc2, key2) = get(db, txn, kc, dc2, key2)

\* a put has replaced the committed data of a key in a write transaction
\* that sees two entries
C10_Witness ==
    /\ tblResult.op = "put"
    /\ tblResult.ret = "Ok"
    /\ tblResult.had
    /\ txn.kind = "rw"
    /\ Cardinality(DOMAIN txn.work) = 2
    /\ DOMAIN store[txn.env] = DOMAIN txn.work
    /\ \E k \in DOMAIN txn.work : txn.work[k] # store[txn.env][k]

--------------------------------------------------------------------------
(***************************************************************************)
(* Claims about deletion, counting, lookups and iteration                  *)
(***************************************************************************)

\* the client holds a handle and a write transaction
Writing == txn.kind = "rw" /\ db.present

\* C11: in every state of a write transaction, delete(k) that returns Ok
\* returns true exactly when k was stored; get(k) on the content the
\* transaction sees afterwards is absent; a delete of a key that is not
\* stored leaves the content unchanged; the entries of the other keys are
\* unchanged; a second delete(k) returns false and leaves the content of
\* the first.
C11_Delete ==
    Writing =>
    \A key \in SearchKeys :
       LET r == delete(db, txn, "ByteSlice", key, TRUE)
           after == [txn EXCEPT !.work = r.work]
           again == delete(db, after, "ByteSlice", key, TRUE) IN
       /\ r.ret = "Ok"
       /\ r.val = {key \in DOMAIN txn.work}
       /\ get(db, after, "ByteSlice", "Str", key) = [ret |-> "Ok", val |-> {}]
       /\ key \notin DOMAIN txn.work => r.work = txn.work
       /\ DOMAIN r.work = DOMAIN txn.work \ {key}
       /\ \A k2 \in DOMAIN r.work : r.work[k2] = txn.work[k2]
       /\ again.val = {FALSE}
       /\ again.work = r.work

\* a delete has removed a stored entry, returned true and left two entries
C11_Witness ==
    /\ tblResult.op = "delete"
    /\ tblResult.ret = "Ok"
    /\ tblResult.val = {TRUE}
    /\ tblResult.had
    /\ txn.kind = "rw"
    /\ Cardinality(DOMAIN txn.work) = 2

\* C12: in every state of a transaction, whatever puts, deletes,
\* delete_ranges and clears made its content, len returns the number of
\* the distinct keys stored and is_empty returns true exactly when len
\* returns 0; on the content a clear leaves, is_empty returns true and len
\* returns 0.
C12_LenIsEmpty ==
    (txn.kind # "none" /\ db.present) =>
    /\ len(db, txn) = [ret |-> "Ok", val |-> {Cardinality(DOMAIN txn.work)}]
    /\ is_empty(db, txn) = [ret |-> "Ok", val |-> {len(db, txn).val = {0}}]
    /\ txn.kind = "rw" =>
          LET r == clear(db, txn, TRUE)
              after == [txn EXCEPT !.work = r.work] IN
          /\ r.ret = "Ok"
          /\ is_empty(db, after) = [ret |-> "Ok", val |-> {TRUE}]
          /\ len(db, after) = [ret |-> "Ok", val |-> {0}]

\* len has counted the three entries a write transaction sees
C12_Witness ==
    /\ tblResult.op = "len"
    /\ tblResult.val = {3}
    /\ txn.kind = "rw"
    /\ Cardinality(DOMAIN txn.work) = 3

\* the client holds a handle and a transaction
Reading == txn.kind # "none" /\ db.present

\* a is before b in the byte-lexicographic order: they differ first at a
\* byte that is smaller in a, or a is a proper prefix of b
BytesBefore(a, b) ==
    \E i \in 1 .. Len(b) :
       /\ i <= Len(a) + 1
       /\ \A j \in 1 .. (i - 1) : a[j] = b[j]
       /\ i <= Len(a) => a[i] < b[i]

\* the key and the data of the i-th item
ItemKey(items, i) == (CHOOSE v \in items[i].val : TRUE)[1]
ItemData(items, i) == (CHOOSE v \in items[i].val : TRUE)[2]

\* the items are entries of the table, decoded, each with its own data
ItemsOf(items, tbl) ==
    \A i \in 1 .. Len(items) :
       /\ items[i].ret = "Ok"
       /\ ItemKey(items, i) \in DOMAIN tbl
       /\ bytes_encode("Str", ItemData(items, i)) = {tbl[ItemKey(items, i)]}

\* the keys of the items are strictly ascending, so no key comes twice
Ascending(items) ==
    \A i \in 1 .. (Len(items) - 1) :
       BytesBefore(ItemKey(items, i), ItemKey(items, i + 1))

AfterStart(key, start) ==
    CASE start.kind = "Included" -> key = start.key \/ BytesBefore(start.key, key)
      [] start.kind = "Excluded" -> BytesBefore(start.key, key)
      [] OTHER -> TRUE
BeforeEnd(key, end) ==
    CASE end.kind = "Included" -> key = end.key \/ BytesBefore(key, end.key)
      [] end.kind = "Excluded" -> BytesBefore(key, end.key)
      [] OTHER -> TRUE

\* the items are exactly the entries of the table whose keys satisfy both
\* bounds, each once, in ascending order
ExactlyWithin(items, tbl, start, end) ==
    /\ ItemsOf(items, tbl)
    /\ Ascending(items)
    /\ {ItemKey(items, i) : i \in 1 .. Len(items)}
          = {k \in DOMAIN tbl : AfterStart(k, start) /\ BeforeEnd(k, end)}

\* C14: whenever range has returned in a transaction, for every
\* combination of an included, excluded or unbounded start and end, with
\* bound keys that are stored or not, it has yielded exactly the stored
\* entries whose keys satisfy both bounds, each once, in ascending order;
\* none when no key satisfies them.
C14_Range ==
    (tblResult.op = "range" /\ Reading) =>
    /\ tblResult.ret = "Ok"
    /\ \A v \in tblResult.val : ExactlyWithin(v[3], txn.work, v[1], v[2])

\* range with an excluded start that is stored and an excluded end that is
\* not stored has yielded the one entry between them, the extension of the
\* start key, out of four
C14_Witness ==
    /\ tblResult.op = "range"
    /\ tblResult.ret = "Ok"
    /\ txn.kind # "none"
    /\ DOMAIN txn.work = StoredKeys
    /\ \E v \in tblResult.val :
          /\ v[1] = Excluded(<<97>>)
          /\ v[2] = Excluded(<<98>>)
          /\ Len(v[3]) = 1
          /\ ItemKey(v[3], 1) = <<97, 255>>

\* C15: whenever delete_range has returned in a write transaction, for
\* every combination of bounds, the entries it removed are exactly the
\* entries whose keys satisfied the bounds, the number it returned is the
\* number of the entries removed, which is the number of the items range
\* yields for the same bounds on the content before the call, and the
\* other entries are unchanged.
C15_DeleteRange ==
    (tblResult.op = "delete_range" /\ Writing) =>
    /\ tblResult.ret = "Ok"
    /\ \A v \in tblResult.val :
          LET before == tblResult.had
              within == {k \in DOMAIN before :
                            AfterStart(k, v[1]) /\ BeforeEnd(k, v[2])} IN
          /\ DOMAIN txn.work = DOMAIN before \ within
          /\ \A k \in DOMAIN txn.work : txn.work[k] = before[k]
          /\ v[3] = Cardinality(within)
          /\ v[3] = Len(range(db, [txn EXCEPT !.work = before],
                              "ByteSlice", "Str", v[1], v[2]).items)

\* delete_range with an excluded start that is stored and an included end
\* has removed two of four entries and returned 2
C15_Witness ==
    /\ tblResult.op = "delete_range"
    /\ tblResult.ret = "Ok"
    /\ txn.kind = "rw"
    /\ tblResult.val = {<<Excluded(<<97>>), Included(<<255>>), 2>>}
    /\ DOMAIN tblResult.had = StoredKeys
    /\ DOMAIN txn.work = {<<97>>, <<255, 255>>}

\* the key starts with the prefix
StartsWith(key, prefix) ==
    /\ Len(prefix) <= Len(key)
    /\ \A i \in 1 .. Len(prefix) : key[i] = prefix[i]

\* the prefix is made of 0xFF bytes only
AllFF(prefix) == \A i \in 1 .. Len(prefix) : prefix[i] = 255

\* the smallest byte string that follows every byte string that starts
\* with the prefix, for a prefix that is not made of 0xFF bytes only
PrefixEnd(prefix) ==
    LET n == CHOOSE i \in 1 .. Len(prefix) :
                /\ prefix[i] # 255
                /\ \A j \in (i + 1) .. Len(prefix) : prefix[j] = 255 IN
    [i \in 1 .. n |-> IF i = n THEN prefix[i] + 1 ELSE prefix[i]]

\* C16: whenever prefix_iter(p) has returned in a transaction, it has
\* yielded exactly the entries whose key bytes start with the bytes of p,
\* each once, in ascending order; they are the items of the range from p,
\* included, to the lexicographically incremented prefix, excluded; and for
\* a prefix of 0xFF bytes only they are the items of the range from p,
\* included, without an end, all of which start with the prefix.
C16_PrefixIter ==
    (tblResult.op = "prefix_iter" /\ Reading) =>
    /\ tblResult.ret = "Ok"
    /\ \A v \in tblResult.val :
          LET prefix == v[1]
              items == v[2] IN
          /\ ItemsOf(items, txn.work)
          /\ Ascending(items)
          /\ {ItemKey(items, i) : i \in 1 .. Len(items)}
                = {k \in DOMAIN txn.work : StartsWith(k, prefix)}
          /\ ~AllFF(prefix) =>
                items = range(db, txn, "ByteSlice", "Str", Included(prefix),
                              Excluded(PrefixEnd(prefix))).items
          /\ AllFF(prefix) =>
                items = range(db, txn, "ByteSlice", "Str", Included(prefix),
                              Unbounded).items

\* prefix_iter of the prefix 0xFF has yielded the two entries that start
\* with it, the last ones of four
C16_Witness ==
    /\ tblResult.op = "prefix_iter"
    /\ tblResult.ret = "Ok"
    /\ txn.kind # "none"
    /\ DOMAIN txn.work = StoredKeys
    /\ \E v \in tblResult.val :
          /\ v[1] = <<255>>
          /\ Len(v[2]) = 2
          /\ ItemKey(v[2], 1) = <<255>>
          /\ ItemKey(v[2], 2) = <<255, 255>>

\* the stored key that is the greatest, or the smallest, of the keys: {}
\* when there is no key
Greatest(keys) == {k \in keys : \A o \in keys : o = k \/ BytesBefore(o, k)}
Smallest(keys) == {k \in keys : \A o \in keys : o = k \/ BytesBefore(k, o)}

\* what a lookup returns for the entries of the keys: none when there is
\* no key, the key and the decoded data of the entry otherwise
Returned(tbl, keys) ==
    {<<k, CHOOSE d \in bytes_decode("Str", tbl[k]).item : TRUE>> : k \in keys}

\* C17: whenever get_lower_than(k) has returned in a transaction, it has
\* returned the entry of the greatest stored key that is strictly smaller
\* than k, and none when no stored key is smaller: when k is stored, when k
\* is not stored, when every stored key is smaller than k, and when the
\* table is empty.
C17_GetLowerThan ==
    (tblResult.op = "get_lower_than" /\ Reading) =>
    /\ tblResult.ret = "Ok"
    /\ \A v \in tblResult.val :
          v[2] = Returned(txn.work,
                    Greatest({k \in DOMAIN txn.work : BytesBefore(k, v[1])}))

\* get_lower_than of a key that is greater than the two stored keys has
\* returned the last entry
C17_Witness ==
    /\ tblResult.op = "get_lower_than"
    /\ tblResult.ret = "Ok"
    /\ txn.kind # "none"
    /\ DOMAIN txn.work = {<<97>>, <<97, 255>>}
    /\ tblResult.val = {<<(<<98>>), {<<(<<97, 255>>), (<<233>>)>>}>>}

\* C18: whenever get_lower_than_or_equal_to(k) has returned in a
\* transaction, it has returned the entry of k when k is stored, the entry
\* of the greatest stored key smaller than k otherwise, which is the last
\* entry when every stored key is smaller than k, and none when no stored
\* key is smaller than or equal to k.
C18_GetLowerThanOrEqualTo ==
    (tblResult.op = "get_lower_than_or_equal_to" /\ Reading) =>
    /\ tblResult.ret = "Ok"
    /\ \A v \in tblResult.val :
          /\ v[1] \in DOMAIN txn.work => v[2] = Returned(txn.work, {v[1]})
          /\ v[1] \notin DOMAIN txn.work =>
                v[2] = Returned(txn.work,
                          Greatest({k \in DOMAIN txn.work : BytesBefore(k, v[1])}))

\* get_lower_than_or_equal_to of a key that is not stored and is greater
\* than the three stored keys has returned the last entry
C18_Witness ==
    /\ tblResult.op = "get_lower_than_or_equal_to"
    /\ tblResult.ret = "Ok"
    /\ txn.kind # "none"
    /\ DOMAIN txn.work = {<<97>>, <<97, 255>>, <<255>>}
    /\ tblResult.val = {<<(<<255, 255>>), {<<(<<255>>), (<<233>>)>>}>>}

\* C19: whenever get_greater_than(k) has returned in a transaction, it has
\* returned the entry of the smallest stored key strictly greater than k,
\* not the entry of k when k is stored; whenever
\* get_greater_than_or_equal_to(k) has returned, it has returned the entry
\* of the smallest stored key greater than or equal to k; each has
\* returned none when there is no such key.
C19_GetGreaterThan ==
    Reading =>
    /\ tblResult.op = "get_greater_than" =>
          /\ tblResult.ret = "Ok"
          /\ \A v \in tblResult.val :
                v[2] = Returned(txn.work,
                          Smallest({k \in DOMAIN txn.work : BytesBefore(v[1], k)}))
    /\ tblResult.op = "get_greater_than_or_equal_to" =>
          /\ tblResult.ret = "Ok"
          /\ \A v \in tblResult.val :
                v[2] = Returned(txn.work,
                          Smallest({k \in DOMAIN txn.work :
                                       k = v[1] \/ BytesBefore(v[1], k)}))

\* get_greater_than of a stored key has returned the entry of its stored
\* extension, the next key
C19_Witness ==
    /\ tblResult.op = "get_greater_than"
    /\ tblResult.ret = "Ok"
    /\ txn.kind # "none"
    /\ DOMAIN txn.work = StoredKeys
    /\ tblResult.val = {<<(<<97>>), {<<(<<97, 255>>), (<<233>>)>>}>>}

--------------------------------------------------------------------------
(***************************************************************************)
(* Claims about transactions                                               *)
(***************************************************************************)

\* C21: an increase of the sequence made in a write transaction is not
\* visible to another transaction before the commit and is discarded by
\* an abort: while the write transaction is active the committed counter
\* is the one it began with, and a read transaction of another thread
\* that began before the commit, or after the abort, reads the counter
\* that was committed when the write transaction began.
C21_SequenceVisibility ==
    /\ txn.kind = "rw" => seq.store[txn.env] = seq.old
    /\ (txn.kind = "none" /\ seq.old # NoOld) => seq.store["A"] = seq.old
    /\ (seq.reader.expect # NoOld /\ seq.reader.got # {}) =>
          seq.reader.got = {seq.reader.expect}

\* the other thread's read transaction began while the write transaction
\* had raised the counter from 0 to 3, read 0, and reads 0 after the
\* commit has made the counter 3
C21_Witness ==
    /\ seq.reader.open
    /\ seq.reader.expect = 0
    /\ seq.reader.got = {0}
    /\ txn.kind = "none"
    /\ seq.old = NoOld
    /\ seq.store["A"] = 3

\* the codecs and the data of the calls C22 is about: the JSON codec of a
\* path, whose encoding fails for a path that is not UTF-8, beside the
\* codecs of the client
CallCodecs == DataCodecs \cup {"SerdeJson"}
CallItems(dc) == IF dc = "SerdeJson" THEN {<<97>>, <<255>>} ELSE DataItems(dc)

\* the codec has no item for the bytes
Undecodable(dc, bytes) == bytes_decode(dc, bytes).item = {}

\* C22 (as stated): with a handle and a write transaction of its
\* environment, a put whose data cannot be encoded returns the encoding
\* error and leaves the content, and a get of a key whose stored bytes the
\* requested codec cannot decode returns the decoding error. Refuted:
\* FixedSlice::bytes_decode asserts the length of the bytes, so a get of
\* data of another length panics.
C22_Original ==
    (txn.kind = "rw" /\ db.present /\ SameEnvIdent(db, txn)) =>
    \A kc \in KeyCodecs, dc \in CallCodecs :
       \A key \in KeyItems(kc), data \in CallItems(dc) :
          LET w == put(db, txn, kc, dc, key, data, TRUE)
              after == [txn EXCEPT !.work = w.work]
              kb == CHOOSE k \in bytes_encode(kc, key) : TRUE IN
          /\ bytes_encode(dc, data) = {} =>
                (w.ret = "Encoding" /\ w.work = txn.work)
          /\ w.ret = "Ok" =>
                \A dc2 \in CallCodecs :
                   Undecodable(dc2, after.work[kb]) =>
                      get(db, after, kc, dc2, key).ret = "Decoding"

\* C23 (as stated): for every implementation of Store, when with_wtx has
\* returned, commit was called exactly when fun returned Ok, and when fun
\* returned an error that error is the result and the committed content,
\* which every later transaction sees, is the one the call began with.
\* Refuted: a write through the WRawTxn of DBType is a write of the
\* database itself, which no drop takes back.
C23_Original ==
    (stResult.op = "with_wtx" /\ stResult.ret # "running") =>
       /\ stResult.commit <=> stResult.ret \in {"Ok", "CommitErr"}
       /\ stResult.ret = "Err" => tables = stResult.base

\* C24 (as stated): for every implementation of Store, what a get through
\* a read transaction returned is what was committed under the key when
\* the read transaction began. Refuted: the read transactions of DBType
\* and of TransactionDB read the content the database has at the moment
\* of the get.
C24_Original ==
    rtx.open => \A g \in rtx.got : g[3] = mdb_get(rtx.snap[g[1]], g[2])

--------------------------------------------------------------------------
(***************************************************************************)
(* Claims about the tables of the LSM engine                               *)
(***************************************************************************)

\* the range of the B-tree engine over the same content and bounds:
\* Table::range of PolyDatabase (mdb.rs 61-72) is PolyDatabase::range
BTreeRange(tbl, start, end) ==
    Items("ByteSlice", "ByteSlice", RoRange(tbl, start, end))

\* C25 (as stated): what range of a table of the LSM engine returned are
\* the entries whose key satisfies the bounds, ascending, the sequence
\* range of the B-tree engine yields for the same content and bounds.
\* Refuted: the start after an excluded key and the end after an included
\* key are taken to be the key with its last byte incremented, so the
\* keys that extend the bound key by further bytes come out on the wrong
\* side.
C25_Original ==
    \A g \in wtx.got :
       g.op = "range" =>
          /\ g.ret = "Ok"
          /\ g.items = BTreeRange(wtx.work[g.t], g.start, g.end)
          /\ \A k \in DOMAIN wtx.work[g.t] :
                (AfterStart(k, g.start) /\ BeforeEnd(k, g.end))
                <=> \E i \in 1 .. Len(g.items) : ItemKey(g.items, i) = k

\* C26 (as stated): when clear of a table of the LSM engine has returned,
\* every key of the table below 0xFF x 512 is gone, every key at or
\* beyond it is stored as before, and the other tables are as before.
\* Refuted: clear of a table of TransactionDB deletes the key of every
\* item of the unbounded range, or panics on the data of the first.
C26_Original ==
    \A g \in wtx.got :
       g.op = "clear" =>
          /\ g.ret = "Ok"
          /\ \A k \in DOMAIN g.had[g.t] :
                IF LexLess(k, Sentinel) THEN k \notin DOMAIN wtx.work[g.t]
                ELSE /\ k \in DOMAIN wtx.work[g.t]
                     /\ wtx.work[g.t][k] = g.had[g.t][k]
          /\ DOMAIN wtx.work[g.t] \subseteq DOMAIN g.had[g.t]
          /\ \A o \in TableNames \ {g.t} : wtx.work[o] = g.had[o]

\* C30 (as stated): what rev_range of a table of the LSM engine returned
\* is the reverse of what range returns for the same content and bounds,
\* whatever the kinds of the bounds. Refuted: rev_range panics for every
\* excluded start.
C30_Original ==
    \A g \in wtx.got :
       g.op = "rev_range" =>
          LET r == RockTable_range(wtx.work[g.t], "ByteSlice", "ByteSlice",
                                   g.start, g.end) IN
          /\ g.ret = r.ret
          /\ g.items = Reversed(r.items)

--------------------------------------------------------------------------
(***************************************************************************)
(* Claims about the polymorphic opens, the locks and the second close      *)
(***************************************************************************)

\* C27 (as stated): a polymorphic open or create never returns
\* InvalidDatabaseTyping, and a typed open or create returns it only when
\* the first typed open of the raw table presented another pair.
\* Refuted: raw_init_database records and compares the types of a
\* polymorphic call, None, like those of a typed one.
C27_Original ==
    dbResult.ret = "InvalidDatabaseTyping" =>
       /\ dbResult.api \notin {"open_poly_database", "create_poly_database"}
       /\ firstTyped[dbResult.dbi] # dbResult.types

\* C28: the registry lock and the type-record lock of an environment are
\* held only for the lookup or insert itself: no thread holds the registry
\* lock while it is in the native open or the native close of an
\* environment, and no thread holds dbi_open_mutex while it is in the
\* native open of a table. Refuted: open, EnvInner::drop and
\* raw_init_database make these native calls with the lock held.
C28_Original ==
    \A t \in Threads :
       /\ pc[t] \in {"open_native", "drop_native"} => lockOwner # {t}
       /\ dbPc[t] = "dbi_open" => dbiMutex # {t}

\* C29: a second prepare_for_closing, through another clone, on an
\* environment whose close transition was already performed panics: it
\* returns neither an event nor an error. Refuted: the registry entry is
\* still there (its handle is None), so the call returns the event again.
C29_Original ==
    [][\A t \in Threads, e \in EnvIds :
          (PfcTake(t, e) /\ e \in closing) => pc'[t] = "panicked"]_vars

(***************************************************************************)
(* Claims about len, the codecs of the LSM tables, the mutable iterators,  *)
(* paged and bytecopy                                                      *)
(***************************************************************************)

\* C31 (as stated): for every implementation of Table, what len of a table
\* returned is the number of entries of that table, whatever the other
\* tables of the store hold
C31_Original ==
    \A g \in wtx.got :
       g.op = "len" => g.val = Cardinality(DOMAIN wtx.work[g.t])

\* C32 (as stated): on a table of the LSM engine a codec that fails is an
\* error result. No get, put, delete or item of a range has panicked; a
\* put or delete whose item has no encoding returned the encoding error; a
\* get of stored bytes the codec does not decode returned the decoding
\* error, not the absent key; and an entry of a range the codecs do not
\* decode is the decoding error.
C32_Original ==
    \A g \in wtx.got :
       /\ g.op \in {"get", "put", "delete"} => g.ret # "panic"
       /\ (g.op \in {"put", "delete"} /\ ~g.encoded) => g.ret = "Encoding"
       /\ (g.op = "get" /\ \E v \in g.stored : Undecodable(g.dc, v)) =>
             g.ret = "Decoding"
       /\ g.op = "range" =>
             \A i \in 1 .. Len(g.items) :
                /\ g.items[i].ret # "panic"
                /\ g.items[i] = Decoded(g.kc, g.dc, g.entries[i])

\* the entries in the scope of a mutable iterator of the kind, created on
\* the content tbl: what its read-only counterpart yields
InScope(kind, tbl, start, end) ==
    CASE kind = "iter_mut" -> RoIter(tbl)
      [] kind = "rev_iter_mut" -> RoRevIter(tbl)
      [] kind = "range_mut" -> RoRange(tbl, start, end)
      [] OTHER -> RoPrefix(tbl, start.key)

MutKinds == {"iter_mut", "rev_iter_mut", "range_mut", "prefix_iter_mut"}

\* C33: a mutable iteration during which the caller deletes or replaces
\* entries next has just returned has returned every entry that was in
\* scope when the iterator was created exactly once, in the order of the
\* iteration and with the data it had then; afterwards exactly the deleted
\* entries are absent, exactly the replaced ones hold the new data and every
\* other entry is unchanged
C33_MutableIteration ==
    (tblResult.op \in MutKinds /\ tblResult.ret = "Ok") =>
    \A v \in tblResult.val :
       LET plan == v[3]
           items == v[4]
           had == tblResult.had
           scope == InScope(tblResult.op, had, v[1], v[2])
           deleted == {scope[i].key : i \in {j \in 1 .. Len(scope) : plan[j] = "del_current"}}
           replaced == {scope[i].key : i \in {j \in 1 .. Len(scope) : plan[j] = "put_current"}} IN
       /\ items = Items("ByteSlice", "Str", scope)
       /\ DOMAIN txn.work = DOMAIN had \ deleted
       /\ \A k \in DOMAIN txn.work :
             txn.work[k] = IF k \in replaced
                           THEN CHOOSE b \in bytes_encode("Str", NewData) : TRUE
                           ELSE had[k]

\* a mutable iteration over three entries has deleted the first, replaced
\* the second and deleted the third
C33_Witness ==
    /\ tblResult.op \in MutKinds
    /\ tblResult.ret = "Ok"
    /\ \E v \in tblResult.val :
          /\ Len(v[4]) = 3
          /\ v[3][1] = "del_current"
          /\ v[3][2] = "put_current"
          /\ v[3][3] = "del_current"

(***************************************************************************)
(* Claims about waiting for a close, the registry's own reference, the     *)
(* type record under concurrency and a failed open                         *)
(***************************************************************************)

\* thread t is blocked in EnvClosingEvent::wait on the event of
\* environment e, which is not signaled, and owns a clone of e
WaitsHoldingClone(t, e) ==
    /\ pc[t] = "waiting"
    /\ local[t].ev = {e}
    /\ handles[t][e] > 0
    /\ signalCount[e] = 0

\* C34: a thread that waits for the closing event of an environment while
\* it owns a clone of that environment, which it can only drop after wait
\* has returned, never returns from wait: no step ends the situation,
\* because only the drop of the last clone signals the event
C34_WaitDeadlock ==
    [][\A t \in Threads, e \in EnvIds :
          WaitsHoldingClone(t, e) => WaitsHoldingClone(t, e)']_vars

\* a thread waits for the close of an environment of which it owns the
\* only clone left after prepare_for_closing
C34_Witness ==
    \E t \in Threads, e \in EnvIds :
       /\ WaitsHoldingClone(t, e)
       /\ e \in closing
       /\ strong[e] = 1

\* C35 (as stated): paged returns Ok only once two invocations of fun in a
\* row have left the value unchanged; it returns the error of fun when fun
\* has returned one; and it has returned in no other way
C35_Original ==
    /\ page.ret = "Ok" => page.same >= 2
    /\ page.pc = "done" <=> page.ret \in {"Ok", "Err"}
    /\ page.pc = "loop" => page.old = page.cur

\* environment e has been opened and prepare_for_closing was never called
\* for it
NeverClosing(e) == e < nextEnv /\ native[e] # "opening" /\ e \notin closing

\* C36: an environment for which prepare_for_closing was never called
\* stays open whatever is dropped: its native environment is open, its
\* registry entry holds it with a reference of its own and its closing
\* event is not signaled; and an open of its path with the options of the
\* entry returns this environment
C36_RegistryKeepsAlive ==
    [][/\ \A e \in EnvIds :
             NeverClosing(e) =>
                /\ native[e] = "open"
                /\ registry[envPath[e]].present
                /\ registry[envPath[e]].env = {e}
                /\ strong[e] >= 1
                /\ signalCount[e] = 0
       /\ \A t \in Threads, raw \in RawPaths, opts \in Options :
             \A e \in EnvIds :
                (/\ OpenOccupied(t, raw, opts)
                 /\ NeverClosing(e)
                 /\ envPath[e] = Canonical(raw)
                 /\ registry[envPath[e]].options = opts) =>
                   /\ result' = OpenRet("Ok", {e}, "open")
                   /\ native'[e] = "open"]_vars

\* every handle of an environment that open has returned and that was
\* never prepared for closing has been dropped, and no thread is inside a
\* call: the reference of the registry is the only one left
C36_Witness ==
    \E e \in EnvIds :
       /\ NeverClosing(e)
       /\ \A t \in Threads : handles[t][e] = 0 /\ pc[t] = "idle"
       /\ strong[e] = 1
       /\ result.op = "open"
       /\ result.ret = "Ok"
       /\ result.env = {e}

\* C37: under every interleaving of typed and polymorphic opens and
\* creates by the threads, the type record of a raw table is written once
\* and never changes afterwards, at most one record is written by a call,
\* a call that fails leaves the records as they are, and a call that
\* returns a handle was made with the entry recorded for its raw table
C37_TypeRecordWrittenOnce ==
    [][/\ \A d \in Dbis : typeRec[d].present => typeRec'[d] = typeRec[d]
       /\ Cardinality({d \in Dbis : typeRec'[d] # typeRec[d]}) <= 1
       /\ \A t \in Threads :
             (dbPc[t] = "dbi_open" /\ dbPc'[t] = "idle") =>
                /\ dbResult'.ret # "Ok" => typeRec' = typeRec
                /\ dbResult'.ret = "Ok" =>
                      typeRec'[dbResult'.dbi] = Recorded(dbResult'.types)]_vars

\* a call with other types than the recorded ones has failed on a raw
\* table while the other thread is inside a call, and the record still
\* holds the types of the first call
C37_Witness ==
    \E d \in Dbis, t \in Threads :
       /\ dbResult.ret = "InvalidDatabaseTyping"
       /\ dbResult.dbi = d
       /\ typeRec[d].present
       /\ typeRec[d].types # dbResult.types
       /\ dbPc[t] = "dbi_open"

\* the EnvInner of environment e is alive: a clone of it exists, or its
\* drop has begun and has not yet looked the entry up
Alive(e) ==
    \/ strong[e] > 0
    \/ \E t \in Threads : pc[t] = "drop_wait" /\ local[t].env = {e}

\* C38: the registry has an entry for the path of every environment that
\* is alive, so that no thread has panicked in prepare_for_closing (entry
\* not found) or in the drop of an environment (entry already removed),
\* and the registry lock is not poisoned
C38_EntryWhileAlive ==
    /\ \A e \in EnvIds : Alive(e) => registry[envPath[e]].present
    /\ \A t \in Threads : pc[t] # "panicked"
    /\ ~poisoned

\* prepare_for_closing has been called a second time, on another clone of
\* an environment that is closing, while a further clone is alive
C38_Witness ==
    \E e \in EnvIds, t \in Threads :
       /\ e \in closing
       /\ pc[t] = "release"
       /\ local[t].env = {e}
       /\ local[t].pending = 1
       /\ registry[envPath[e]].env = {}
       /\ result.op = "prepare_for_closing"
       /\ strong[e] > 1

\* C39: when the native open of a path that has no registry entry fails,
\* open returns the error of the engine, the registry is as it was before
\* the call, the path still has no entry, so that a later open of it takes
\* the branch of a first open, and no handle or reference is created
C39_FailedOpenLeavesRegistry ==
    [][\A t \in Threads :
          (OpenNativeDone(t) /\ local[t].env = {}) =>
             /\ result' = OpenRet("Mdb", {}, "vacant")
             /\ registry' = registry
             /\ ~registry'[local[t].path].present
             /\ handles' = handles
             /\ strong' = strong
             /\ native' = native
             /\ lockOwner' = {}]_vars

\* a native open of the path p has failed while the path q is open: p has
\* no entry and the entry of q is there
C39_Witness ==
    /\ result = OpenRet("Mdb", {}, "vacant")
    /\ ~registry["p"].present
    /\ registry["q"].present
    /\ registry["q"].env # {}
    /\ nextEnv <= MaxEnvs
    /\ \A t \in Threads : pc[t] = "idle"

\* C40: when bytecopy has returned Ok into a destination that was empty
\* before the call, the destination as the write transaction sees it holds
\* exactly the pairs of key bytes and data bytes of the source as the read
\* transaction sees it, whichever engines hold the two tables, and the
\* source is unchanged
C40_ByteCopy ==
    \A g \in wtx.got :
       (g.op = "bytecopy" /\ g.ret = "Ok" /\ g.had = EmptyTable) =>
          /\ wtx.work["t2"] = g.src
          /\ Seen(g.b1, rtx)["t1"] = g.src

\* a copy of two entries, one key extending the other, between tables of
\* different engines has returned Ok
C40_Witness ==
    \E g \in wtx.got :
       /\ g.op = "bytecopy"
       /\ g.ret = "Ok"
       /\ g.had = EmptyTable
       /\ Cardinality(DOMAIN g.src) = 2
       /\ g.b1 # backend
       /\ "Env" \in {g.b1, backend}

=============================================================================
